---- MODULE Spec2Model ----
(***************************************************************************)
(* The output pipeline of holo-cli (src/src/pipe.rs): PipeChain::spawn     *)
(* builds a chain of builtin filter threads and external processes, the   *)
(* producer writes into the entry writer, PipeChain::finish tears it down. *)
(*                                                                         *)
(* Bytes are tokens: "a" is a letter, "NL" the line break, "CR" a carriage *)
(* return, "BAD" a byte that is not valid UTF-8, "0".."9" decimal digits.  *)
(***************************************************************************)
EXTENDS Integers, Sequences, FiniteSets, TLC

\* ---------------------------------------------------------------- bounds
MaxStages == 2      \* longest request list
MaxLines == 2       \* most lines in the producer's input
PipeCap == 2        \* bytes an OS pipe holds
BufCap == 2         \* bytes a BufWriter holds (std: 8192)
MaxSegments == 2    \* most segments in a typed pipeline
MaxArgs == 2        \* most argument words typed after a name
MaxInputLen == 4    \* most bytes in the input of a filter applied on its own
MaxCalls == 2       \* most filters applied one after the other
MaxArgsLen == 4     \* most characters in the ARGS text of grep
\* calls of take_writer on one chain
MaxTakes == 2

MaxGrepBytes == 2   \* most bytes the producer writes to a GrepWriter

\* ------------------------------------------------------------- registry
\* default_registry() plus one external command, as PipeRegistry::external
\* registers them.
default_registry ==
    << [name |-> "include", nargs |-> 1, action |-> "Builtin"],
       [name |-> "exclude", nargs |-> 1, action |-> "Builtin"],
       [name |-> "count",   nargs |-> 0, action |-> "Builtin"],
       [name |-> "no-more", nargs |-> 0, action |-> "Builtin"] >>

registry ==
    default_registry \o << [name |-> "grep", nargs |-> 1, action |-> "External"] >>

Patterns == { <<"a">> }

\* The ParsedPipe values parse_pipe can return against the registry.
ParsedPipes ==
    { [command_idx |-> i, args |-> a] :
        i \in 1..Len(registry), a \in {<<>>} \cup { <<p>> : p \in Patterns } }

ParsedPipe ==
    { p \in ParsedPipes : Len(p.args) = registry[p.command_idx].nargs }

RECURSIVE SeqsUpTo(_, _)
SeqsUpTo(S, n) ==
    IF n = 0 THEN { <<>> }
    ELSE LET shorter == SeqsUpTo(S, n - 1)
         IN  shorter \cup { Append(s, x) : s \in shorter, x \in S }

Pipelines == SeqsUpTo(ParsedPipe, MaxStages)

\* ------------------------------------------------------ PipeRegistry
\* Text is a sequence of characters; a name as the characters it is spelt with.
Spell(name) ==
    CASE name = "include"   -> << "i", "n", "c", "l", "u", "d", "e" >>
      [] name = "exclude"   -> << "e", "x", "c", "l", "u", "d", "e" >>
      [] name = "count"     -> << "c", "o", "u", "n", "t" >>
      [] name = "no-more"   -> << "n", "o", "-", "m", "o", "r", "e" >>
      [] name = "grep"      -> << "g", "r", "e", "p" >>
      [] name = "inc"       -> << "i", "n", "c" >>
      [] name = "increment" -> << "i", "n", "c", "r", "e", "m", "e", "n", "t" >>
      [] name = "begin"     -> << "b", "e", "g", "i", "n" >>

\* str::starts_with
starts_with(text, prefix) ==
    Len(prefix) <= Len(text) /\ SubSeq(text, 1, Len(prefix)) = prefix

NoError == [err |-> "none"]

NotFound(name) == [err |-> "NotFound", name |-> name]

Ambiguous(name, names) == [err |-> "Ambiguous", name |-> name, names |-> names]

WrongArgCount(command, expected, got) ==
    [err |-> "WrongArgCount", command |-> command, expected |-> expected, got |-> got]

\* the indices i..Len(cmds), in order, of the commands whose name starts
\* with name
RECURSIVE MatchesFrom(_, _, _)
MatchesFrom(cmds, name, i) ==
    IF i > Len(cmds) THEN <<>>
    ELSE (IF starts_with(Spell(cmds[i].name), name) THEN << i >> ELSE <<>>)
            \o MatchesFrom(cmds, name, i + 1)

\* find returning the first match whenever there is one
findFirstMatch(cmds, name) ==
    LET matches == MatchesFrom(cmds, name, 1)
    IN  IF Len(matches) = 0
        THEN [ok |-> FALSE, idx |-> 0, error |-> NotFound(name)]
        ELSE [ok |-> TRUE, idx |-> matches[1], error |-> NoError]

\* find resolving only a name typed in full
findExactOnly(cmds, name) ==
    LET exact == { i \in 1..Len(cmds) : Spell(cmds[i].name) = name }
    IN  IF exact = {}
        THEN [ok |-> FALSE, idx |-> 0, error |-> NotFound(name)]
        ELSE [ok |-> TRUE, idx |-> CHOOSE i \in exact : \A j \in exact : i <= j,
              error |-> NoError]

\* find naming only the first two candidates of an ambiguous name
findTwoCandidates(cmds, name) ==
    LET matches == MatchesFrom(cmds, name, 1)
        exact == { k \in 1..Len(matches) : Spell(cmds[matches[k]].name) = name }
    IN  IF Len(matches) = 0
        THEN [ok |-> FALSE, idx |-> 0, error |-> NotFound(name)]
        ELSE IF Len(matches) = 1
        THEN [ok |-> TRUE, idx |-> matches[1], error |-> NoError]
        ELSE IF exact # {}
        THEN [ok |-> TRUE, idx |-> matches[CHOOSE k \in exact : \A j \in exact : k <= j],
              error |-> NoError]
        ELSE [ok |-> FALSE, idx |-> 0,
              error |-> Ambiguous(name, [k \in 1..2 |-> cmds[matches[k]].name])]

\* PipeRegistry::find (indices count from 1)
find(cmds, name) ==
    LET matches == MatchesFrom(cmds, name, 1)
        exact == { k \in 1..Len(matches) : Spell(cmds[matches[k]].name) = name }
    IN  IF Len(matches) = 0
        THEN [ok |-> FALSE, idx |-> 0, error |-> NotFound(name)]
        ELSE IF Len(matches) = 1
        THEN [ok |-> TRUE, idx |-> matches[1], error |-> NoError]
        ELSE IF exact # {}
        THEN [ok |-> TRUE, idx |-> matches[CHOOSE k \in exact : \A j \in exact : k <= j],
              error |-> NoError]
        ELSE [ok |-> FALSE, idx |-> 0,
              error |-> Ambiguous(name, [k \in 1..Len(matches) |-> cmds[matches[k]].name])]

\* str::split_whitespace: the words of a text
RECURSIVE split_whitespace(_)
split_whitespace(text) ==
    IF text = <<>> THEN <<>>
    ELSE IF Head(text) = " " THEN split_whitespace(Tail(text))
    ELSE LET n == IF \E i \in 1..Len(text) : text[i] = " "
                  THEN (CHOOSE i \in 1..Len(text) :
                            text[i] = " " /\ \A j \in 1..(i - 1) : text[j] # " ") - 1
                  ELSE Len(text)
         IN  << SubSeq(text, 1, n) >> \o split_whitespace(SubSeq(text, n + 1, Len(text)))

\* parse_pipe without the check of the argument count
parse_pipe_unchecked(cmds, segment) ==
    LET words == split_whitespace(segment)
        name == IF words = <<>> THEN <<>> ELSE Head(words)
        f == find(cmds, name)
        args == IF words = <<>> THEN <<>> ELSE Tail(words)
    IN  IF ~f.ok THEN [ok |-> FALSE, pipe |-> <<>>, error |-> f.error]
        ELSE [ok |-> TRUE, pipe |-> [command_idx |-> f.idx, args |-> args],
              error |-> NoError]

\* parse_pipe keeping the name among the arguments
parse_pipe_keep_name(cmds, segment) ==
    LET words == split_whitespace(segment)
        name == IF words = <<>> THEN <<>> ELSE Head(words)
        f == find(cmds, name)
        args == IF words = <<>> THEN <<>> ELSE Tail(words)
    IN  IF ~f.ok THEN [ok |-> FALSE, pipe |-> <<>>, error |-> f.error]
        ELSE IF Len(args) # cmds[f.idx].nargs
        THEN [ok |-> FALSE, pipe |-> <<>>,
              error |-> WrongArgCount(cmds[f.idx].name, cmds[f.idx].nargs, Len(args))]
        ELSE [ok |-> TRUE, pipe |-> [command_idx |-> f.idx, args |-> words],
              error |-> NoError]

\* PipeRegistry::parse_pipe
parse_pipe(cmds, segment) ==
    LET words == split_whitespace(segment)
        name == IF words = <<>> THEN <<>> ELSE Head(words)
        f == find(cmds, name)
        args == IF words = <<>> THEN <<>> ELSE Tail(words)
    IN  IF ~f.ok THEN [ok |-> FALSE, pipe |-> <<>>, error |-> f.error]
        ELSE IF Len(args) # cmds[f.idx].nargs
        THEN [ok |-> FALSE, pipe |-> <<>>,
              error |-> WrongArgCount(cmds[f.idx].name, cmds[f.idx].nargs, Len(args))]
        ELSE [ok |-> TRUE, pipe |-> [command_idx |-> f.idx, args |-> args],
              error |-> NoError]

\* The registries parsing is checked against: PipeRegistry::new(), the
\* default one, and ones with names that share a prefix.
Registries ==
    { <<>>,
      << [name |-> "count", nargs |-> 0, action |-> "Builtin"] >>,
      registry,
      default_registry,
      default_registry \o << [name |-> "inc", nargs |-> 0, action |-> "Builtin"] >>,
      << [name |-> "increment", nargs |-> 2, action |-> "Builtin"] >> \o default_registry }

\* every prefix of a text
Prefixes(text) == { SubSeq(text, 1, n) : n \in 0..Len(text) }

\* names a user types: the prefixes of some names, wrong names
TypedNames ==
    Prefixes(Spell("include")) \cup Prefixes(Spell("inc")) \cup { Spell("count") }
        \cup { << "x" >>, Spell("include") \o << "s" >>, Spell("begin") }

RECURSIVE Join(_, _)
Join(words, sep) ==
    IF words = <<>> THEN <<>>
    ELSE IF Len(words) = 1 THEN Head(words)
    ELSE Head(words) \o sep \o Join(Tail(words), sep)

\* typed segments: a name and up to MaxArgs argument words, separated by
\* one blank, or by two with blanks around
Segments ==
    LET lists == { (IF n = <<>> THEN <<>> ELSE << n >>) \o a :
                     n \in TypedNames, a \in SeqsUpTo({ << "a" >> }, MaxArgs) }
    IN  { Join(ws, << " " >>) : ws \in lists }
            \cup { << " " >> \o Join(ws, << " ", " " >>) \o << " " >> : ws \in lists }

SegmentLists == SeqsUpTo(Segments, MaxSegments)

\* ---------------------------------------------------------------- input
InputLines == { <<"a">>, <<>>, <<"BAD">> }

RECURSIVE Flatten(_)
Flatten(ls) ==
    IF ls = <<>> THEN <<>> ELSE Head(ls) \o <<"NL">> \o Flatten(Tail(ls))

\* Every text of at most MaxLines lines, the last one with or without its
\* line break.
Inputs ==
    LET whole == { Flatten(ls) : ls \in SeqsUpTo(InputLines, MaxLines) }
    IN  whole \cup { SubSeq(b, 1, Len(b) - 1) : b \in whole \ { <<>> } }

\* ------------------------------------------------------- line operations
Min(a, b) == IF a < b THEN a ELSE b

\* str::contains
Contains(line, pat) ==
    \E i \in 1..(Len(line) - Len(pat) + 1) :
        SubSeq(line, i, i + Len(pat) - 1) = pat

HasLine(b) == \E i \in 1..Len(b) : b[i] = "NL"

FirstNL(b) == CHOOSE i \in 1..Len(b) : b[i] = "NL" /\ \A j \in 1..(i - 1) : b[j] # "NL"

\* BufRead::lines: the line loses its "\n" and a "\r" before it.
StripLine(l) ==
    IF Len(l) > 0 /\ l[Len(l)] = "CR" THEN SubSeq(l, 1, Len(l) - 1) ELSE l

\* The next item of BufRead::lines on the buffered bytes b: the text up to
\* the first line break, or all of b when it holds none (the last fragment).
NextLine(b) ==
    IF HasLine(b)
    THEN [line |-> StripLine(SubSeq(b, 1, FirstNL(b) - 1)),
          raw  |-> SubSeq(b, 1, FirstNL(b) - 1),
          rest |-> SubSeq(b, FirstNL(b) + 1, Len(b))]
    ELSE [line |-> b, raw |-> b, rest |-> <<>>]

ValidUtf8(l) == \A i \in 1..Len(l) : l[i] # "BAD"

Digit(d) == << "0", "1", "2", "3", "4", "5", "6", "7", "8", "9" >>[d + 1]

\* Display for usize
RECURSIVE ToDec(_)
ToDec(n) == IF n < 10 THEN << Digit(n) >> ELSE ToDec(n \div 10) \o << Digit(n % 10) >>

\* ------------------------------------------------ builtin filter functions
\* The filters as functions of their whole input: the bytes written to the
\* writer and the Result returned.

\* filter_include (keep = TRUE) and filter_exclude (keep = FALSE)
RECURSIVE FilterLoop(_, _, _)
FilterLoop(pat, keep, b) ==
    IF b = <<>> THEN [out |-> <<>>, res |-> "ok"]
    ELSE LET nl == NextLine(b)
         IN  IF ~ValidUtf8(nl.raw) THEN [out |-> <<>>, res |-> "Err"]
             ELSE LET r == FilterLoop(pat, keep, nl.rest)
                  IN  [out |-> (IF Contains(nl.line, pat) = keep
                                THEN nl.line \o <<"NL">> ELSE <<>>) \o r.out,
                       res |-> r.res]

\* filter_include keeping the lines that begin with the pattern
RECURSIVE filter_include_prefix(_, _)
filter_include_prefix(args, b) ==
    IF b = <<>> THEN [out |-> <<>>, res |-> "ok"]
    ELSE LET nl == NextLine(b)
         IN  IF ~ValidUtf8(nl.raw) THEN [out |-> <<>>, res |-> "Err"]
             ELSE LET r == filter_include_prefix(args, nl.rest)
                  IN  [out |-> (IF starts_with(nl.line, args[1])
                                THEN nl.line \o <<"NL">> ELSE <<>>) \o r.out,
                       res |-> r.res]

\* filter_include keeping only the lines that are the pattern
RECURSIVE filter_include_whole(_, _)
filter_include_whole(args, b) ==
    IF b = <<>> THEN [out |-> <<>>, res |-> "ok"]
    ELSE LET nl == NextLine(b)
         IN  IF ~ValidUtf8(nl.raw) THEN [out |-> <<>>, res |-> "Err"]
             ELSE LET r == filter_include_whole(args, nl.rest)
                  IN  [out |-> (IF nl.line = args[1]
                                THEN nl.line \o <<"NL">> ELSE <<>>) \o r.out,
                       res |-> r.res]

filter_include(args, b) == FilterLoop(args[1], TRUE, b)

\* filter_exclude dropping only the lines that are the pattern
RECURSIVE filter_exclude_whole(_, _)
filter_exclude_whole(args, b) ==
    IF b = <<>> THEN [out |-> <<>>, res |-> "ok"]
    ELSE LET nl == NextLine(b)
         IN  IF ~ValidUtf8(nl.raw) THEN [out |-> <<>>, res |-> "Err"]
             ELSE LET r == filter_exclude_whole(args, nl.rest)
                  IN  [out |-> (IF nl.line # args[1]
                                THEN nl.line \o <<"NL">> ELSE <<>>) \o r.out,
                       res |-> r.res]

\* filter_exclude dropping only the lines that begin with the pattern
RECURSIVE filter_exclude_prefix(_, _)
filter_exclude_prefix(args, b) ==
    IF b = <<>> THEN [out |-> <<>>, res |-> "ok"]
    ELSE LET nl == NextLine(b)
         IN  IF ~ValidUtf8(nl.raw) THEN [out |-> <<>>, res |-> "Err"]
             ELSE LET r == filter_exclude_prefix(args, nl.rest)
                  IN  [out |-> (IF ~starts_with(nl.line, args[1])
                                THEN nl.line \o <<"NL">> ELSE <<>>) \o r.out,
                       res |-> r.res]

filter_exclude(args, b) == FilterLoop(args[1], FALSE, b)

\* reader.lines().count(): every item counts, an Err item too
RECURSIVE CountLines(_)
CountLines(b) == IF b = <<>> THEN 0 ELSE 1 + CountLines(NextLine(b).rest)

\* filter_count counting the line breaks
filter_count_breaks(args, b) ==
    [out |-> ToDec(Len(SelectSeq(b, LAMBDA x : x = "NL"))) \o <<"NL">>, res |-> "ok"]

filter_count(args, b) == [out |-> ToDec(CountLines(b)) \o <<"NL">>, res |-> "ok"]

filter_no_more(args, b) == [out |-> b, res |-> "ok"]

\* The BuiltinFn registered under a name.
BuiltinFn(name, args, b) ==
    CASE name = "include" -> filter_include(args, b)
      [] name = "exclude" -> filter_exclude(args, b)
      [] name = "count"   -> filter_count(args, b)
      [] OTHER            -> filter_no_more(args, b)

\* ----------------------------------------------------------------- state
VARIABLES
    finput,     \* the bytes a filter is applied to
    fpattern,   \* the PATTERN argument of the filters applied
    fcalls,     \* the filters applied so far, each with its input and results
    fpair,      \* include and exclude, both implementations, applied to the same bytes
    gargs,      \* the "args" text handed to pipe_grep
    ginput,     \* the bytes the producer writes to the writer pipe_grep returns
    gw,         \* pipe_grep's position, the GrepWriter, grep and the output thread
    commands,   \* PipeRegistry.commands of the registry that parses
    segments,   \* the segments given to parse_pipes
    collected,  \* parse_pipes: the ParsedPipe values collected so far
    call,       \* the last call of parse_pipe: its segment, name and results
    parse_result, \* what parse_pipes returned
    pipes,      \* the ParsedPipe list given to spawn
    use_pager,  \* spawn's use_pager
    pc,         \* the caller: "start", "active", "finish", "returned", "spawn_err"
    writer,     \* the entry writer: "none", "chain" (PipeChain.writer is Some),
                \* "producer" (taken by take_writer), "closed" (dropped by the
                \* producer), "dropped" (dropped by finish)
    todo,       \* bytes the producer has still to write
    sent,       \* bytes the producer has written
    perr,       \* a write of the producer failed
    stages,     \* PipeChain.stages, in push order
    pager,      \* the pager process: "none", "running", "exited", "reaped"
    act,        \* the stage threads <<"T", k>> and stage processes <<"P", k>>
    pipe,       \* the OS pipes
    terminal,   \* bytes shown on the terminal
    stdoutBuf,  \* bytes held by the process's line-buffered Stdout
    finIdx,     \* finish: index in stages of the unit it is at
    waitOn,     \* finish: the unit whose join/wait is in progress
    began,      \* units finish began to join/wait, in order
    joined,     \* units finish has joined/waited, in order
    result,     \* what spawn or finish returned
    fails,      \* the threads that ended in an error or a panic, in order
    quit,       \* the user has quit the pager
    taken       \* how the chain was made and what its take_writer calls returned

\* the variables of a filter applied on its own
gvars == << gargs, ginput, gw >>

ovars == << finput, fpattern, fcalls, fpair, gvars >>

\* the variables of parsing
pvars == << commands, segments, collected, call, parse_result >>

\* the variables of the chain
cvars == << pipes, use_pager, pc, writer, todo, sent, perr, stages, pager, act,
            pipe, terminal, stdoutBuf, finIdx, waitOn, began, joined, result, fails,
            quit >>

vars == << ovars, taken, pvars, cvars, taken >>

NoCall == [segment |-> <<>>, name |-> <<>>, found |-> [ok |-> FALSE, idx |-> 0, error |-> NoError],
           res |-> [ok |-> FALSE, pipe |-> <<>>, error |-> NoError]]

NoParse == [st |-> "none", pipes |-> <<>>, error |-> NoError]

\* --------------------------------------------------------------- layout
Stage == 1..MaxStages

Unit == { "T", "P" } \X Stage

NoUnit == << "-", 0 >>

PagerUnit == << "pager", 0 >>

\* ChainOutput::Terminal, the process's own standard output
Terminal == 0

\* the pipe feeding stage k
InPipe(k) == k

\* the stdin pipe of the external program of stage k
ChildStdin(k) == MaxStages + k

\* ChainOutput::PagerStdin
PagerStdin == 2 * MaxStages + 1

PipeId == 1..PagerStdin

Cmd(p) == registry[p.command_idx]

\* spawn building a stage for no-more too
EffKeepNoMore(ps) == ps

\* the requests spawn builds a stage for: it skips no-more
Eff(ps) == SelectSeq(ps, LAMBDA p : Cmd(p).name # "no-more")

eff == Eff(pipes)

NStages == Len(eff)

\* should_page that does not look at has_no_more
should_page_always == use_pager

has_no_more == \E i \in 1..Len(pipes) : Cmd(pipes[i]).name = "no-more"

should_page == use_pager /\ ~has_no_more

IsExt(k) == Cmd(eff[k]).action = "External"

\* next_output when stage k is built
StageOut(k) ==
    IF k < NStages THEN InPipe(k + 1)
    ELSE IF should_page THEN PagerStdin ELSE Terminal

\* the sink the entry writer writes to
Entry == IF NStages >= 1 THEN InPipe(1) ELSE StageOut(0)

In(u) == IF u[1] = "T" THEN InPipe(u[2]) ELSE ChildStdin(u[2])

\* an external program that is left with the standard output it inherits
OutInherited(u) ==
    IF u[1] = "T" /\ IsExt(u[2]) THEN ChildStdin(u[2])
    ELSE IF u[1] = "P" THEN Terminal ELSE StageOut(u[2])

Out(u) == IF u[1] = "T" /\ IsExt(u[2]) THEN ChildStdin(u[2]) ELSE StageOut(u[2])

\* what the unit runs: a builtin's name, "fwd" (the forwarding thread of an
\* external stage) or "ext" (the external program)
Kind(u) ==
    IF u[1] = "P" THEN "ext"
    ELSE IF IsExt(u[2]) THEN "fwd" ELSE Cmd(eff[u[2]]).name

Args(u) == eff[u[2]].args

UnitsOf(k) == IF IsExt(k) THEN << <<"T", k>>, <<"P", k>> >> ELSE << <<"T", k>> >>

\* stages when every unit is put in front of those built before it
RECURSIVE StagesBuiltForward(_, _)
StagesBuiltForward(from, k) ==
    IF from <= k THEN <<>> ELSE StagesBuiltForward(from - 1, k) \o UnitsOf(from)

\* stages after the loop of spawn has built stages NStages down to k + 1
RECURSIVE StagesBuilt(_, _)
StagesBuilt(from, k) ==
    IF from <= k THEN <<>> ELSE UnitsOf(from) \o StagesBuilt(from - 1, k)

Idle ==
    [pc |-> "none", rbuf |-> <<>>, wbuf |-> <<>>, wq |-> <<>>, outq |-> <<>>,
     eof |-> FALSE, cnt |-> 0, res |-> "ok", iofail |-> FALSE]

Fresh == [Idle EXCEPT !.pc = "read"]

\* a chain made by spawn on which take_writer has not been called
NoTakes == [by |-> "spawn", results |-> <<>>]

NoPipe == [buf |-> <<>>, wopen |-> FALSE, ropen |-> FALSE]

NoResult == [st |-> "none", unit |-> NoUnit, msg |-> "-"]

Ok == [st |-> "ok", unit |-> NoUnit, msg |-> "-"]

\* Err(msg), and the unit or spawn step it comes from
Err(u, msg) == [st |-> "err", unit |-> u, msg |-> msg]

\* e.to_string() of the io::Error of a line that is not valid UTF-8
InvalidUtf8 == "stream did not contain valid UTF-8"

\* e.to_string() of the io::Error of a write to a pipe nobody reads
BrokenPipe == "Broken pipe (os error 32)"

\* every Err a builtin filter or a forwarding thread of the registry returns
IoErrors == { InvalidUtf8, BrokenPipe }

\* handle.join() gives Err for a thread that panicked
Panicked == "panicked"

\* finish reporting a panic with the text of an I/O error
JoinErrorAsIo(res) == IF res = Panicked THEN BrokenPipe ELSE res

\* The Err finish returns for a joined thread that did not return Ok.
JoinError(res) == IF res = Panicked THEN "pipe thread panicked" ELSE res

\* The Err spawn returns for a failure at f.
SpawnError(f) ==
    CASE f[1] = "pager" -> "failed to spawn pager"
      [] f[1] = "spawn" -> "failed to spawn"
      [] OTHER          -> "failed to create pipe"

\* pipe_grep has not been called.
NoGrep ==
    [pc |-> "none", spawn |-> "none", ret |-> "none", argv |-> <<>>, stdin |-> FALSE,
     child |-> "none", cin |-> <<>>, cout |-> <<>>, thread |-> "none",
     down |-> <<>>, downBroken |-> FALSE, emitted |-> <<>>, stderr |-> <<>>,
     sunk |-> <<>>, todo |-> <<>>, werr |-> FALSE, flushed |-> FALSE]

GrepIdle ==
    /\ gargs = <<>>
    /\ ginput = <<>>
    /\ gw = NoGrep

\* include and exclude have not been applied side by side.
NoPair == [st |-> "none"]

\* No filter is applied on its own.
FilterIdle ==
    /\ finput = <<>>
    /\ fpattern = <<>>
    /\ fcalls = <<>>
    /\ fpair = NoPair
    /\ GrepIdle

\* No parsing in progress: the chain is given a request list directly.
ParseIdle ==
    /\ commands = registry
    /\ segments = <<>>
    /\ collected = <<>>
    /\ call = NoCall
    /\ parse_result = NoParse

Init ==
    /\ FilterIdle
    /\ ParseIdle
    /\ pipes \in Pipelines
    /\ use_pager \in BOOLEAN
    /\ pc = "start"
    /\ writer = "none"
    /\ todo = <<>>
    /\ sent = <<>>
    /\ perr = FALSE
    /\ stages = <<>>
    /\ pager = "none"
    /\ act = [u \in Unit |-> Idle]
    /\ pipe = [p \in PipeId |-> NoPipe]
    /\ terminal = <<>>
    /\ stdoutBuf = <<>>
    /\ finIdx = 0
    /\ waitOn = NoUnit
    /\ began = <<>>
    /\ joined = <<>>
    /\ result = NoResult
    /\ fails = <<>>
    /\ quit = FALSE
    /\ taken = NoTakes

\* ---------------------------------------------------------------- spawn
\* Where spawn can fail: nowhere, at the pager, at the spawn of the external
\* program of stage k, at the pipe() of stage k.
FailPoints ==
    { <<"none", 0>> }
        \cup (IF should_page THEN { <<"pager", NStages>> } ELSE {})
        \cup { <<"spawn", k>> : k \in { j \in 1..NStages : IsExt(j) } }
        \cup { <<"pipe", k>> : k \in 1..NStages }

\* PipeChain::spawn, failing at f. Stages NStages down to f[2] + 1 are built;
\* a failure of pipe() at an external stage comes after its program started.
SpawnAt(f) ==
    LET ok == f[1] = "none"
        built(k) == k \in 1..NStages /\ k > f[2]
        procOnly(k) == f = <<"pipe", k>> /\ k \in 1..NStages /\ IsExt(k)
        holder(k) == built(k) \/ procOnly(k)
        paged == should_page /\ f[1] # "pager"
    IN  /\ pc = "start"
        /\ pc' = IF ok THEN "active" ELSE "spawn_err"
        /\ result' = IF ok THEN NoResult ELSE Err(<<f[1], f[2]>>, SpawnError(f))
        /\ writer' = IF ok THEN "chain" ELSE "none"
        /\ stages' = IF ok THEN StagesBuilt(NStages, 0) ELSE <<>>
        /\ pager' = IF paged THEN "running" ELSE "none"
        /\ act' = [u \in Unit |->
                     IF u[1] = "T" /\ built(u[2]) THEN Fresh
                     ELSE IF u[1] = "P" /\ holder(u[2]) /\ u[2] \in 1..NStages
                             /\ IsExt(u[2]) THEN Fresh
                     ELSE Idle]
        /\ pipe' = [p \in PipeId |->
                     IF p = PagerStdin
                     THEN IF paged
                          THEN [buf |-> <<>>, ropen |-> TRUE,
                                wopen |-> IF NStages = 0 THEN ok ELSE holder(NStages)]
                          ELSE NoPipe
                     ELSE IF p <= MaxStages
                     THEN IF built(p)
                          THEN [buf |-> <<>>, ropen |-> TRUE,
                                wopen |-> IF p = 1 THEN ok ELSE holder(p - 1)]
                          ELSE NoPipe
                     ELSE LET k == p - MaxStages
                          IN  IF k \in 1..NStages /\ IsExt(k) /\ holder(k)
                              THEN [buf |-> <<>>, ropen |-> TRUE, wopen |-> built(k)]
                              ELSE NoPipe]
        /\ UNCHANGED << ovars, taken, pvars, pipes, use_pager, todo, sent, perr, terminal, stdoutBuf,
                        finIdx, waitOn, began, joined, fails, quit >>

Spawn == \E f \in FailPoints : SpawnAt(f)

\* ------------------------------------------------------------ stage units
\* BufWriter::write_all of the first piece waiting in wq: buffer it, or flush
\* the buffer first when the piece does not fit, or pass a piece of at least
\* the capacity straight through.
BufWrite(s) ==
    LET d == Head(s.wq)
        spare == BufCap - Len(s.wbuf)
    IN  IF Len(d) < spare THEN [s EXCEPT !.wbuf = @ \o d, !.wq = Tail(@)]
        ELSE IF Len(d) > spare /\ s.wbuf # <<>>
             THEN [s EXCEPT !.outq = s.wbuf, !.wbuf = <<>>]
        ELSE IF Len(d) >= BufCap THEN [s EXCEPT !.outq = d, !.wq = Tail(@)]
        ELSE [s EXCEPT !.wbuf = @ \o d, !.wq = Tail(@)]

\* The function returns (Ok, Err or by unwinding): its BufWriter is dropped,
\* which writes out what it still holds, and ignores a failure of that write.
DropWriter(s, res) ==
    [s EXCEPT !.pc = "drop", !.res = res, !.outq = s.wbuf, !.wbuf = <<>>,
              !.wq = <<>>, !.rbuf = <<>>]

\* One item of reader.lines(), handled as the unit's loop body does.
DoLine(s, kind, args) ==
    LET nl == NextLine(s.rbuf)
        s1 == [s EXCEPT !.rbuf = nl.rest]
    IN  CASE kind \in { "include", "exclude" } ->
                IF ~ValidUtf8(nl.raw)
                THEN DropWriter([s1 EXCEPT !.iofail = TRUE], InvalidUtf8)
                ELSE IF Contains(nl.line, args[1]) = (kind = "include")
                     THEN [s1 EXCEPT !.wq = << nl.line, <<"NL">> >>]
                     ELSE s1
          [] kind = "count" ->
                [s1 EXCEPT !.cnt = @ + 1, !.iofail = @ \/ ~ValidUtf8(nl.raw)]
          [] OTHER ->
                IF Contains(nl.raw, args[1])
                THEN [s1 EXCEPT !.outq = nl.raw \o <<"NL">>]
                ELSE s1

\* The input is at its end: what the unit does before it returns.
AtEof(s, kind) ==
    [s EXCEPT !.pc = "fin",
              !.wq = IF kind = "count" THEN << ToDec(s.cnt), <<"NL">> >> ELSE <<>>]

\* The unit runs on its own data until it has to write to its output, has to
\* read its input, or has returned.
RECURSIVE Run(_, _, _)
Run(s0, kind, args) ==
    LET go(s) ==
            IF s.pc \notin { "read", "fin" } \/ s.outq # <<>> THEN s
            ELSE IF s.wq # <<>> THEN Run(BufWrite(s), kind, args)
            ELSE IF s.pc = "fin" THEN DropWriter(s, "ok")
            ELSE IF kind = "fwd"
                 THEN IF s.rbuf # <<>> THEN [s EXCEPT !.outq = s.rbuf, !.rbuf = <<>>]
                      ELSE IF s.eof THEN DropWriter(s, "ok") ELSE s
            ELSE IF HasLine(s.rbuf) \/ (s.eof /\ s.rbuf # <<>>)
                 THEN Run(DoLine(s, kind, args), kind, args)
            ELSE IF s.eof THEN Run(AtEof(s, kind), kind, args)
            ELSE s
    IN  CHOOSE r \in { go(v) : v \in { s0 } } : TRUE

Exited(s) == [Idle EXCEPT !.pc = "exited", !.res = s.res, !.iofail = s.iofail]

Settle(s0) ==
    CHOOSE r \in { IF v.pc = "drop" /\ v.outq = <<>> THEN Exited(v) ELSE v : v \in { s0 } } :
        TRUE

Step(u, s) == Settle(Run(s, Kind(u), Args(u)))

\* a unit that exits and leaves the write end of its output open
CloseEndsLeak(pp, u, s) ==
    IF s.pc # "exited" THEN pp
    ELSE [p \in PipeId |->
            IF p = In(u) THEN [pp[p] EXCEPT !.ropen = FALSE, !.buf = <<>>] ELSE pp[p]]

\* a unit whose output is closed when its function returns, before its
\* BufWriter has written out what it holds
CloseEndsOnDrop(pp, u, s) ==
    IF s.pc \notin { "drop", "exited" } THEN pp
    ELSE [p \in PipeId |->
            IF p = In(u) /\ s.pc = "exited" THEN [pp[p] EXCEPT !.ropen = FALSE, !.buf = <<>>]
            ELSE IF p = Out(u) THEN [pp[p] EXCEPT !.wopen = FALSE]
            ELSE pp[p]]

\* A unit that has exited has closed its end of its input and of its output.
CloseEnds(pp, u, s) ==
    IF s.pc # "exited" THEN pp
    ELSE [p \in PipeId |->
            IF p = In(u) THEN [pp[p] EXCEPT !.ropen = FALSE, !.buf = <<>>]
            ELSE IF p = Out(u) THEN [pp[p] EXCEPT !.wopen = FALSE]
            ELSE pp[p]]

Failed(u, s) ==
    IF s.pc = "exited" /\ s.res # "ok" /\ u[1] = "T"
    THEN Append(fails, [unit |-> u, res |-> s.res])
    ELSE fails

\* Stdout is line buffered: a write shows everything up to the last line
\* break and holds the rest.
LastNL(b) == CHOOSE i \in 1..Len(b) : b[i] = "NL" /\ \A j \in (i + 1)..Len(b) : b[j] # "NL"

\* a Stdout that loses the bytes after the last line break
StdoutWriteLossy(d) ==
    LET all == stdoutBuf \o d
    IN  IF HasLine(all)
        THEN /\ terminal' = terminal \o SubSeq(all, 1, LastNL(all))
             /\ stdoutBuf' = <<>>
        ELSE /\ stdoutBuf' = <<>>
             /\ UNCHANGED terminal

StdoutWrite(d) ==
    LET all == stdoutBuf \o d
    IN  IF HasLine(all)
        THEN /\ terminal' = terminal \o SubSeq(all, 1, LastNL(all))
             /\ stdoutBuf' = SubSeq(all, LastNL(all) + 1, Len(all))
        ELSE /\ stdoutBuf' = all
             /\ UNCHANGED terminal

\* A blocked read returns: the bytes in the pipe, or end-of-input when the
\* pipe is empty and its write end is closed.
Read(u) ==
    LET s == act[u]
        p == In(u)
    IN  /\ s.pc = "read" /\ s.outq = <<>> /\ ~s.eof
        /\ pipe[p].buf # <<>> \/ ~pipe[p].wopen
        /\ \E s2 \in { Step(u, IF pipe[p].buf # <<>>
                                THEN [s EXCEPT !.rbuf = @ \o pipe[p].buf]
                                ELSE [s EXCEPT !.eof = TRUE]) } :
              /\ act' = [act EXCEPT ![u] = s2]
              /\ pipe' = CloseEnds([pipe EXCEPT ![p].buf = <<>>], u, s2)
              /\ fails' = Failed(u, s2)
        /\ UNCHANGED << ovars, taken, pvars, pipes, use_pager, pc, writer, todo, sent, perr, stages,
                        pager, terminal, stdoutBuf, finIdx, waitOn, began, joined,
                        result, quit >>

\* A write of the bytes in outq: to the terminal, or into a pipe as far as
\* there is room; it fails when the read end of the pipe is closed.
Write(u) ==
    LET s == act[u]
        o == Out(u)
    IN  /\ s.pc \in { "read", "fin", "drop" } /\ s.outq # <<>>
        /\ IF o = Terminal
           THEN \E s2 \in { Step(u, [s EXCEPT !.outq = <<>>]) } :
                    /\ IF u[1] = "T" THEN StdoutWrite(s.outq)
                       ELSE /\ terminal' = terminal \o s.outq
                            /\ UNCHANGED stdoutBuf
                    /\ act' = [act EXCEPT ![u] = s2]
                    /\ pipe' = CloseEnds(pipe, u, s2)
                    /\ fails' = Failed(u, s2)
           ELSE IF ~pipe[o].ropen
           THEN \E s2 \in { Exited([s EXCEPT !.iofail = TRUE,
                                              !.res = IF s.pc = "drop" THEN @
                                                      ELSE BrokenPipe]) } :
                    /\ act' = [act EXCEPT ![u] = s2]
                    /\ pipe' = CloseEnds(pipe, u, s2)
                    /\ fails' = Failed(u, s2)
                    /\ UNCHANGED << terminal, stdoutBuf >>
           ELSE \E n \in { Min(PipeCap - Len(pipe[o].buf), Len(s.outq)) } :
                \E s2 \in { Step(u, [s EXCEPT !.outq = SubSeq(@, n + 1, Len(@))]) } :
                    /\ n > 0
                    /\ act' = [act EXCEPT ![u] = s2]
                    /\ pipe' = CloseEnds([pipe EXCEPT ![o].buf = @ \o SubSeq(s.outq, 1, n)],
                                         u, s2)
                    /\ fails' = Failed(u, s2)
                    /\ UNCHANGED << terminal, stdoutBuf >>
        /\ UNCHANGED << ovars, taken, pvars, pipes, use_pager, pc, writer, todo, sent, perr, stages,
                        pager, finIdx, waitOn, began, joined, result, quit >>

\* A builtin filter panics: its thread unwinds.
Panic(u) ==
    LET s == act[u]
    IN  /\ u[1] = "T" /\ s.pc = "read" /\ s.outq = <<>>
        /\ Kind(u) # "fwd"
        /\ \E s2 \in { Settle(DropWriter(s, Panicked)) } :
              /\ act' = [act EXCEPT ![u] = s2]
              /\ pipe' = CloseEnds(pipe, u, s2)
              /\ fails' = Failed(u, s2)
        /\ UNCHANGED << ovars, taken, pvars, pipes, use_pager, pc, writer, todo, sent, perr, stages,
                        pager, terminal, stdoutBuf, finIdx, waitOn, began, joined,
                        result, quit >>

\* ---------------------------------------------------------------- pager
\* less reads its input and shows it; it exits at end-of-input.
PagerRead ==
    /\ pager = "running"
    /\ IF pipe[PagerStdin].buf # <<>>
       THEN /\ terminal' = terminal \o pipe[PagerStdin].buf
            /\ pipe' = [pipe EXCEPT ![PagerStdin].buf = <<>>]
            /\ UNCHANGED pager
       ELSE /\ ~pipe[PagerStdin].wopen
            /\ pager' = "exited"
            /\ pipe' = [pipe EXCEPT ![PagerStdin].ropen = FALSE]
            /\ UNCHANGED terminal
    /\ UNCHANGED << ovars, taken, pvars, pipes, use_pager, pc, writer, todo, sent, perr, stages, act,
                    stdoutBuf, finIdx, waitOn, began, joined, result, fails, quit >>

\* The user quits less before it has read everything.
PagerQuit ==
    /\ pager = "running"
    /\ pager' = "exited"
    /\ quit' = TRUE
    /\ pipe' = [pipe EXCEPT ![PagerStdin].ropen = FALSE, ![PagerStdin].buf = <<>>]
    /\ UNCHANGED << ovars, taken, pvars, pipes, use_pager, pc, writer, todo, sent, perr, stages, act,
                    terminal, stdoutBuf, finIdx, waitOn, began, joined, result, fails >>

\* ------------------------------------------------------------- producer
CloseEntry(pp) ==
    IF Entry = Terminal THEN pp ELSE [pp EXCEPT ![Entry].wopen = FALSE]

\* a take_writer that leaves the writer in the chain and hands out another
take_writer_keep ==
    /\ pc = "active" /\ writer \in { "chain", "producer" }
    /\ Len(taken.results) < MaxTakes
    /\ writer' = "producer"
    /\ taken' = [taken EXCEPT !.results = Append(@, "Some")]
    /\ \E inp \in Inputs : todo' = IF writer = "chain" THEN inp ELSE todo
    /\ UNCHANGED << ovars, pvars, pipes, use_pager, pc, sent, perr, stages, pager, act, pipe,
                    terminal, stdoutBuf, finIdx, waitOn, began, joined, result, fails, quit >>

\* PipeChain::take_writer on a chain that holds its writer: self.writer.take()
\* gives Some(writer) and leaves None; the producer has inp to write.
take_writer ==
    /\ pc = "active" /\ writer = "chain"
    /\ Len(taken.results) < MaxTakes
    /\ writer' = "producer"
    /\ taken' = [taken EXCEPT !.results = Append(@, "Some")]
    /\ \E inp \in Inputs : todo' = inp
    /\ UNCHANGED << ovars, pvars, pipes, use_pager, pc, sent, perr, stages, pager, act, pipe,
                    terminal, stdoutBuf, finIdx, waitOn, began, joined, result, fails, quit >>

ProducerWrite ==
    /\ pc = "active" /\ writer = "producer" /\ todo # <<>> /\ ~perr
    /\ IF Entry = Terminal
       THEN /\ StdoutWrite(todo)
            /\ sent' = sent \o todo
            /\ todo' = <<>>
            /\ UNCHANGED << pipe, perr >>
       ELSE IF ~pipe[Entry].ropen
       THEN /\ perr' = TRUE
            /\ UNCHANGED << pipe, sent, todo, terminal, stdoutBuf >>
       ELSE LET n == Min(PipeCap - Len(pipe[Entry].buf), Len(todo))
            IN  /\ n > 0
                /\ pipe' = [pipe EXCEPT ![Entry].buf = @ \o SubSeq(todo, 1, n)]
                /\ sent' = sent \o SubSeq(todo, 1, n)
                /\ todo' = SubSeq(todo, n + 1, Len(todo))
                /\ UNCHANGED << perr, terminal, stdoutBuf >>
    /\ UNCHANGED << ovars, taken, pvars, pipes, use_pager, pc, writer, stages, pager, act, finIdx,
                    waitOn, began, joined, result, fails, quit >>

ProducerDone == todo = <<>> \/ perr

\* The producer drops the writer it took.
ProducerDrop ==
    /\ pc = "active" /\ writer = "producer" /\ ProducerDone
    /\ writer' = "closed"
    /\ pipe' = CloseEntry(pipe)
    /\ UNCHANGED << ovars, taken, pvars, pipes, use_pager, pc, todo, sent, perr, stages, pager, act,
                    terminal, stdoutBuf, finIdx, waitOn, began, joined, result, fails, quit >>

\* --------------------------------------------------------------- finish
\* finish that leaves self.writer alone
FinishCallNoDrop ==
    /\ pc = "active"
    /\ writer = "producer" => ProducerDone
    /\ pc' = "finish"
    /\ finIdx' = Len(stages)
    /\ UNCHANGED << ovars, taken, pvars, pipes, use_pager, writer, todo, sent, perr, stages, pager, act,
                    pipe, terminal, stdoutBuf, waitOn, began, joined, result, fails,
                    quit >>

\* finish callable again on a chain it has already torn down
FinishCallAgain ==
    /\ pc \in { "active", "returned" }
    /\ writer = "producer" => ProducerDone
    /\ pc' = "finish"
    /\ writer' = IF writer = "chain" THEN "dropped" ELSE writer
    /\ pipe' = IF writer = "chain" THEN CloseEntry(pipe) ELSE pipe
    /\ finIdx' = Len(stages)
    /\ UNCHANGED << ovars, taken, pvars, pipes, use_pager, todo, sent, perr, stages, pager, act,
                    terminal, stdoutBuf, waitOn, began, joined, result, fails, quit >>

\* finish is called: drop(self.writer.take()), then the loop starts at the
\* end of stages.
FinishCall ==
    /\ pc = "active"
    /\ writer = "producer" => ProducerDone
    /\ pc' = "finish"
    /\ writer' = IF writer = "chain" THEN "dropped" ELSE writer
    /\ pipe' = IF writer = "chain" THEN CloseEntry(pipe) ELSE pipe
    /\ finIdx' = Len(stages)
    /\ UNCHANGED << ovars, taken, pvars, pipes, use_pager, todo, sent, perr, stages, pager, act,
                    terminal, stdoutBuf, waitOn, began, joined, result, fails, quit >>

\* finish walking stages in push order, first pushed first
FinishUnitForward ==
    IF finIdx >= 1 THEN stages[Len(stages) - finIdx + 1] ELSE PagerUnit

\* finish waiting on the pager before the stages
FinishUnitPagerFirst ==
    IF pager \in { "running", "exited" } \/ finIdx < 1 THEN PagerUnit ELSE stages[finIdx]

\* the unit finish is at: stages, last pushed first, then the pager
FinishUnit == IF finIdx >= 1 THEN stages[finIdx] ELSE PagerUnit

\* handle.join() / child.wait() / pager.wait() is called
FinishBegin ==
    /\ pc = "finish" /\ waitOn = NoUnit
    /\ finIdx >= 1 \/ pager \in { "running", "exited" }
    /\ waitOn' = FinishUnit
    /\ began' = Append(began, FinishUnit)
    /\ UNCHANGED << ovars, taken, pvars, pipes, use_pager, pc, writer, todo, sent, perr, stages, pager,
                    act, pipe, terminal, stdoutBuf, finIdx, joined, result, fails, quit >>

\* the join or wait returns
FinishComplete ==
    /\ pc = "finish" /\ waitOn # NoUnit
    /\ joined' = Append(joined, waitOn)
    /\ waitOn' = NoUnit
    /\ IF waitOn = PagerUnit
       THEN /\ pager = "exited"
            /\ pager' = "reaped"
            /\ UNCHANGED << pc, act, finIdx, result >>
       ELSE /\ act[waitOn].pc = "exited"
            /\ UNCHANGED pager
            /\ IF waitOn[1] = "P"
               THEN /\ act' = [act EXCEPT ![waitOn].pc = "reaped"]
                    /\ finIdx' = finIdx - 1
                    /\ UNCHANGED << pc, result >>
               ELSE /\ act' = [act EXCEPT ![waitOn].pc = "joined"]
                    /\ IF act[waitOn].res = "ok"
                       THEN /\ finIdx' = finIdx - 1
                            /\ UNCHANGED << pc, result >>
                       ELSE /\ pc' = "returned"
                            /\ result' = Err(waitOn, JoinError(act[waitOn].res))
                            /\ UNCHANGED finIdx
    /\ UNCHANGED << ovars, taken, pvars, pipes, use_pager, writer, todo, sent, perr, stages, pipe,
                    terminal, stdoutBuf, began, fails, quit >>

\* finish returning Ok without the wait on the pager
FinishReturnNoPagerWait ==
    /\ pc = "finish" /\ waitOn = NoUnit /\ finIdx = 0
    /\ pc' = "returned"
    /\ result' = Ok
    /\ UNCHANGED << ovars, taken, pvars, pipes, use_pager, writer, todo, sent, perr, stages, pager, act,
                    pipe, terminal, stdoutBuf, finIdx, waitOn, began, joined, fails, quit >>

\* Ok(()) at the end of finish
FinishReturn ==
    /\ pc = "finish" /\ waitOn = NoUnit /\ finIdx = 0
    /\ pager \in { "none", "reaped" }
    /\ pc' = "returned"
    /\ result' = Ok
    /\ UNCHANGED << ovars, taken, pvars, pipes, use_pager, writer, todo, sent, perr, stages, pager, act,
                    pipe, terminal, stdoutBuf, finIdx, waitOn, began, joined, fails, quit >>

Next ==
    \/ Spawn
    \/ take_writer
    \/ ProducerWrite
    \/ ProducerDrop
    \/ FinishCall
    \/ FinishBegin
    \/ FinishComplete
    \/ FinishReturn
    \/ \E u \in Unit : Read(u)
    \/ \E u \in Unit : Write(u)
    \/ \E u \in Unit : Panic(u)
    \/ PagerRead
    \/ PagerQuit

Spec == Init /\ [][Next]_vars

\* ------------------------------------------- take_writer and from_pager
\* PipeChain::take_writer on a chain that holds no writer: take() of None is
\* None, and nothing changes.
take_writer_None ==
    /\ pc = "active" /\ writer # "chain"
    /\ Len(taken.results) < MaxTakes
    /\ taken' = [taken EXCEPT !.results = Append(@, "None")]
    /\ UNCHANGED << ovars, pvars, cvars >>

\* PipeChain::from_pager(pager): a chain of a running pager alone, with no
\* writer and no stage. The caller has taken the pager's stdin and holds it
\* (held) or the pager's input is at its end.
from_pager ==
    /\ pc = "start" /\ pipes = <<>> /\ use_pager
    /\ pc' = "active"
    /\ writer' = "none"
    /\ stages' = <<>>
    /\ pager' = "running"
    /\ taken' = [taken EXCEPT !.by = "from_pager"]
    /\ \E held \in BOOLEAN :
          pipe' = [pipe EXCEPT ![PagerStdin] = [buf |-> <<>>, ropen |-> TRUE, wopen |-> held]]
    /\ UNCHANGED << ovars, pvars, pipes, use_pager, todo, sent, perr, act, terminal,
                    stdoutBuf, finIdx, waitOn, began, joined, result, fails, quit >>

\* chains made by spawn or by from_pager, with every call of take_writer
TakeNext ==
    \/ Next
    \/ take_writer_None
    \/ from_pager

TakeSpec == Init /\ [][TakeNext]_vars

\* A step of a stage thread, of a stage process, of the pager or of the
\* thread that runs finish.
SystemStep ==
    \/ \E u \in Unit : Read(u)
    \/ \E u \in Unit : Write(u)
    \/ PagerRead
    \/ FinishBegin
    \/ FinishComplete
    \/ FinishReturn

\* Fair scheduling: while a thread or process of the pipeline can run, one
\* of them does (each has a bounded amount of work, so each one that can
\* run gets its turn). Nothing forces the producer, a panic or the user
\* quitting the pager.
FairSpec == Spec /\ WF_vars(SystemStep)

\* -------------------------------------------------------------- parsing
\* A registry is built and parse_pipes is called on typed segments; no
\* chain exists.
ParseInit ==
    /\ FilterIdle
    /\ commands \in Registries
    /\ segments \in SegmentLists
    /\ collected = <<>>
    /\ call = NoCall
    /\ parse_result = NoParse
    /\ pipes = <<>>
    /\ use_pager = FALSE
    /\ pc = "start"
    /\ writer = "none"
    /\ todo = <<>>
    /\ sent = <<>>
    /\ perr = FALSE
    /\ stages = <<>>
    /\ pager = "none"
    /\ act = [u \in Unit |-> Idle]
    /\ pipe = [p \in PipeId |-> NoPipe]
    /\ terminal = <<>>
    /\ stdoutBuf = <<>>
    /\ finIdx = 0
    /\ waitOn = NoUnit
    /\ began = <<>>
    /\ joined = <<>>
    /\ result = NoResult
    /\ fails = <<>>
    /\ quit = FALSE
    /\ taken = NoTakes

\* the name parse_pipe looks up for a segment
TypedName(segment) ==
    IF split_whitespace(segment) = <<>> THEN <<>> ELSE Head(split_whitespace(segment))

\* parse_pipes handing back what it had collected when a segment fails
ParseSegmentKeepPartial ==
    /\ parse_result.st = "none" /\ Len(collected) < Len(segments)
    /\ LET seg == segments[Len(collected) + 1]
           r == parse_pipe(commands, seg)
       IN  /\ call' = [segment |-> seg, name |-> TypedName(seg),
                       found |-> find(commands, TypedName(seg)), res |-> r]
           /\ IF r.ok
              THEN /\ collected' = Append(collected, r.pipe)
                   /\ UNCHANGED parse_result
              ELSE /\ parse_result' = [st |-> "err", pipes |-> collected, error |-> r.error]
                   /\ UNCHANGED collected
    /\ UNCHANGED << commands, segments, cvars, ovars, taken >>

\* parse_pipes: parse_pipe on the next segment; collect() keeps an Ok value
\* and stops at the first Err, which is all it returns.
ParseSegment ==
    /\ parse_result.st = "none" /\ Len(collected) < Len(segments)
    /\ LET seg == segments[Len(collected) + 1]
           r == parse_pipe(commands, seg)
       IN  /\ call' = [segment |-> seg, name |-> TypedName(seg),
                       found |-> find(commands, TypedName(seg)), res |-> r]
           /\ IF r.ok
              THEN /\ collected' = Append(collected, r.pipe)
                   /\ UNCHANGED parse_result
              ELSE /\ parse_result' = [st |-> "err", pipes |-> <<>>, error |-> r.error]
                   /\ collected' = <<>>
    /\ UNCHANGED << commands, segments, cvars, ovars, taken >>

\* parse_pipes returns Ok with the list collected
ParseReturn ==
    /\ parse_result.st = "none" /\ Len(collected) = Len(segments)
    /\ parse_result' = [st |-> "ok", pipes |-> collected, error |-> NoError]
    /\ UNCHANGED << commands, segments, collected, call, cvars, ovars, taken >>

ParseNext == ParseSegment \/ ParseReturn

ParseSpec == ParseInit /\ [][ParseNext]_vars

\* ------------------------------------------------------------ FilterWriter
\* String::from_utf8_lossy: a byte that is not valid UTF-8 becomes U+FFFD
from_utf8_lossy(line) ==
    [i \in 1..Len(line) |-> IF line[i] = "BAD" THEN "U+FFFD" ELSE line[i]]

\* FilterWriter::new; downstream holds the bytes written to the wrapped writer
FilterWriter_new(pattern, include) ==
    [downstream |-> <<>>, pattern |-> pattern, include |-> include, buf |-> <<>>]

\* FilterWriter::emit_line: the line, its line break included, is tested as
\* lossy text and forwarded as the bytes it was given as
emit_line(fw, line) ==
    LET line_str == from_utf8_lossy(line)
        matches == Contains(line_str, fw.pattern)
    IN  IF matches = fw.include
        THEN [fw EXCEPT !.downstream = @ \o line]
        ELSE fw

\* the loop of FilterWriter::write: every complete line leaves buf
RECURSIVE ProcessLines(_)
ProcessLines(fw) ==
    IF HasLine(fw.buf)
    THEN LET pos == FirstNL(fw.buf)
             line == SubSeq(fw.buf, 1, pos)
         IN  ProcessLines(emit_line([fw EXCEPT !.buf = SubSeq(@, pos + 1, Len(@))], line))
    ELSE fw

\* FilterWriter::write
FilterWriter_write(fw, data) == ProcessLines([fw EXCEPT !.buf = @ \o data])

\* FilterWriter::flush: a remaining partial line is emitted as it is
FilterWriter_flush(fw) ==
    IF fw.buf # <<>> THEN emit_line([fw EXCEPT !.buf = <<>>], fw.buf) ELSE fw

\* --------------------------------------------------- filters on their own
\* No chain exists.
ChainIdle ==
    /\ pipes = <<>>
    /\ use_pager = FALSE
    /\ pc = "start"
    /\ writer = "none"
    /\ todo = <<>>
    /\ sent = <<>>
    /\ perr = FALSE
    /\ stages = <<>>
    /\ pager = "none"
    /\ act = [u \in Unit |-> Idle]
    /\ pipe = [p \in PipeId |-> NoPipe]
    /\ terminal = <<>>
    /\ stdoutBuf = <<>>
    /\ finIdx = 0
    /\ waitOn = NoUnit
    /\ began = <<>>
    /\ joined = <<>>
    /\ result = NoResult
    /\ fails = <<>>
    /\ quit = FALSE
    /\ taken = NoTakes

\* the bytes of a reader: letters, line breaks, carriage returns and bytes
\* that are not valid UTF-8
Bytes == { "a", "NL", "CR", "BAD" }

FilterInputs == SeqsUpTo(Bytes, MaxInputLen)

\* the PATTERN argument: empty, one letter, two letters
FilterPatterns == { <<>>, << "a" >>, << "a", "a" >> }

\* "foo\nerror: bad\nbar\nerror: worse\n" and the pattern "error"
ScenarioA ==
    [input |-> << "f", "o", "o", "NL",
                  "e", "r", "r", "o", "r", ":", " ", "b", "a", "d", "NL",
                  "b", "a", "r", "NL",
                  "e", "r", "r", "o", "r", ":", " ", "w", "o", "r", "s", "e", "NL" >>,
     pattern |-> << "e", "r", "r", "o", "r" >>]

\* "DEBUG x\nINFO y\nDEBUG z\n" and the pattern "DEBUG"
ScenarioB ==
    [input |-> << "D", "E", "B", "U", "G", " ", "x", "NL",
                  "I", "N", "F", "O", " ", "y", "NL",
                  "D", "E", "B", "U", "G", " ", "z", "NL" >>,
     pattern |-> << "D", "E", "B", "U", "G" >>]

\* ten lines, the last one without its line break
TenLines ==
    [input |-> << "a", "NL", "a", "NL", "a", "NL", "a", "NL", "a", "NL",
                  "a", "NL", "a", "NL", "a", "NL", "a", "NL", "a" >>,
     pattern |-> << "a" >>]

FilterCases ==
    { [input |-> b, pattern |-> p] : b \in FilterInputs, p \in FilterPatterns }
        \cup { ScenarioA, ScenarioB, TenLines }

\* A reader holding some bytes and a pattern; no filter has been applied.
FilterInit ==
    /\ \E c \in FilterCases : finput = c.input /\ fpattern = c.pattern
    /\ fcalls = <<>>
    /\ fpair = NoPair
    /\ GrepIdle
    /\ ParseIdle
    /\ ChainIdle

\* what the next filter reads: the bytes given, or what the filter before it
\* wrote
NextInput == IF fcalls = <<>> THEN finput ELSE fcalls[Len(fcalls)].out

BuiltinNames == { default_registry[i].name : i \in 1..Len(default_registry) }

\* A builtin filter function is called on a reader and a writer and returns.
ApplyBuiltin ==
    /\ Len(fcalls) < MaxCalls
    /\ fpair = NoPair
    /\ \E name \in BuiltinNames :
        LET r == BuiltinFn(name, << fpattern >>, NextInput)
        IN  fcalls' = Append(fcalls,
                [fn |-> name, keep |-> (name = "include"), input |-> NextInput,
                 split |-> 0, out |-> r.out, res |-> r.res])
    /\ UNCHANGED << finput, fpattern, fpair, gvars, pvars, cvars, taken >>

\* pipe_include / pipe_exclude wrap the downstream writer in a FilterWriter;
\* the producer writes the bytes in two pieces and flushes.
ApplyFilterWriter ==
    /\ Len(fcalls) < MaxCalls
    /\ fpair = NoPair
    /\ \E include \in BOOLEAN, k \in 0..Len(NextInput) :
        LET fw0 == FilterWriter_new(fpattern, include)
            fw1 == FilterWriter_write(fw0, SubSeq(NextInput, 1, k))
            fw2 == FilterWriter_write(fw1, SubSeq(NextInput, k + 1, Len(NextInput)))
            fw3 == FilterWriter_flush(fw2)
        IN  fcalls' = Append(fcalls,
                [fn |-> "FilterWriter", keep |-> include, input |-> NextInput,
                 split |-> k, out |-> fw3.downstream, res |-> "ok"])
    /\ UNCHANGED << finput, fpattern, fpair, gvars, pvars, cvars, taken >>

\* A FilterWriter is written the first k bytes, flushed if mid, written the
\* rest, and flushed.
WriterRun(include, b, k, mid) ==
    LET fw0 == FilterWriter_new(fpattern, include)
        fw1 == FilterWriter_write(fw0, SubSeq(b, 1, k))
        fw2 == IF mid THEN FilterWriter_flush(fw1) ELSE fw1
        fw3 == FilterWriter_write(fw2, SubSeq(b, k + 1, Len(b)))
    IN  FilterWriter_flush(fw3).downstream

\* The same bytes are given to filter_include, to filter_exclude and to
\* FilterWriters built to include and to exclude: written whole and flushed
\* (whole), and written in two pieces with or without a flush between them
\* (cut).
ApplySame ==
    /\ fcalls = <<>>
    /\ fpair = NoPair
    /\ \E k \in 0..Len(finput), mid \in BOOLEAN :
        fpair' = [st |-> "done", split |-> k, mid |-> mid,
                  inc |-> filter_include(<< fpattern >>, finput),
                  exc |-> filter_exclude(<< fpattern >>, finput),
                  whole |-> [i \in BOOLEAN |-> WriterRun(i, finput, Len(finput), FALSE)],
                  cut |-> [i \in BOOLEAN |-> WriterRun(i, finput, k, mid)]]
    /\ UNCHANGED << finput, fpattern, fcalls, gvars, pvars, cvars, taken >>

FilterNext == ApplyBuiltin \/ ApplyFilterWriter \/ ApplySame

FilterSpec == FilterInit /\ [][FilterNext]_vars

\* -------------------------------------------------------------- GrepWriter
\* the "args" texts of the Remaining token: letters and blanks
GrepArgs == SeqsUpTo({ "a", " " }, MaxArgsLen)

GrepInputs == SeqsUpTo({ "a", "NL" }, MaxGrepBytes)

\* pipe_grep is about to be called for a downstream writer.
GrepInit ==
    /\ gargs \in GrepArgs
    /\ ginput \in GrepInputs
    /\ gw = [NoGrep EXCEPT !.pc = "start", !.todo = ginput]
    /\ finput = <<>>
    /\ fpattern = <<>>
    /\ fcalls = <<>>
    /\ fpair = NoPair
    /\ ParseIdle
    /\ ChainIdle

\* pipe_grep: the args text is split on whitespace and GrepWriter::new spawns
\* grep with the words and starts the output thread; when the spawn fails
\* the error is printed to stderr and a sink is returned.
pipe_grep ==
    /\ gw.pc = "start"
    /\ LET grep_args == split_whitespace(gargs)
       IN  \E spawned \in BOOLEAN :
            gw' = IF spawned
                  THEN [gw EXCEPT !.pc = "writing", !.spawn = "ok", !.ret = "GrepWriter",
                                  !.argv = grep_args, !.stdin = TRUE,
                                  !.child = "running", !.thread = "running"]
                  ELSE [gw EXCEPT !.pc = "writing", !.spawn = "failed", !.ret = "sink",
                                  !.argv = grep_args, !.stderr = << "grep: spawn failed" >>]
    /\ UNCHANGED << gargs, ginput, finput, fpattern, fcalls, fpair, pvars, cvars, taken >>

\* The producer writes a byte to the writer it was handed. GrepWriter::write
\* writes to grep's stdin: it blocks while the pipe is full and fails once
\* grep has exited; a sink takes every byte.
GrepWrite ==
    /\ gw.pc = "writing"
    /\ gw.todo # <<>>
    /\ ~gw.werr
    /\ IF gw.ret = "sink"
       THEN gw' = [gw EXCEPT !.sunk = Append(@, Head(gw.todo)), !.todo = Tail(@)]
       ELSE IF gw.child # "running"
       THEN gw' = [gw EXCEPT !.werr = TRUE]
       ELSE /\ Len(gw.cin) < PipeCap
            /\ gw' = [gw EXCEPT !.cin = Append(@, Head(gw.todo)), !.todo = Tail(@)]
    /\ UNCHANGED << gargs, ginput, finput, fpattern, fcalls, fpair, pvars, cvars, taken >>

\* GrepWriter::drop that leaves stdin open
GrepDropKeepStdin ==
    /\ gw.pc = "writing"
    /\ gw' = IF gw.ret = "sink"
             THEN [gw EXCEPT !.pc = "done"]
             ELSE [gw EXCEPT !.pc = "join"]
    /\ UNCHANGED << gargs, ginput, finput, fpattern, fcalls, fpair, pvars, cvars, taken >>

\* The producer drops the writer. GrepWriter::drop begins: stdin is closed.
\* Dropping a sink does nothing.
GrepDrop ==
    /\ gw.pc = "writing"
    /\ gw' = IF gw.ret = "sink"
             THEN [gw EXCEPT !.pc = "done"]
             ELSE [gw EXCEPT !.pc = "join", !.stdin = FALSE]
    /\ UNCHANGED << gargs, ginput, finput, fpattern, fcalls, fpair, pvars, cvars, taken >>

\* GrepWriter::drop going on without joining the output thread
GrepJoinNoWait ==
    /\ gw.pc = "join"
    /\ gw' = [gw EXCEPT !.pc = "wait"]
    /\ UNCHANGED << gargs, ginput, finput, fpattern, fcalls, fpair, pvars, cvars, taken >>

\* GrepWriter::drop: thread.join() returns when the output thread has ended
GrepJoin ==
    /\ gw.pc = "join"
    /\ gw.thread = "done"
    /\ gw' = [gw EXCEPT !.pc = "wait"]
    /\ UNCHANGED << gargs, ginput, finput, fpattern, fcalls, fpair, pvars, cvars, taken >>

\* GrepWriter::drop: child.wait() returns when grep has exited; drop returns
GrepWait ==
    /\ gw.pc = "wait"
    /\ gw.child = "exited"
    /\ gw' = [gw EXCEPT !.pc = "done", !.child = "reaped"]
    /\ UNCHANGED << gargs, ginput, finput, fpattern, fcalls, fpair, pvars, cvars, taken >>

\* grep, a program of its own, reads a byte of its stdin and writes it to
\* its stdout or not; writing blocks while the pipe is full, and ends grep
\* when the output thread no longer reads.
GrepRead ==
    /\ gw.child = "running"
    /\ gw.cin # <<>>
    /\ \E echo \in BOOLEAN :
        IF ~echo
        THEN gw' = [gw EXCEPT !.cin = Tail(@)]
        ELSE IF gw.thread = "done"
        THEN gw' = [gw EXCEPT !.child = "exited", !.cin = <<>>]
        ELSE /\ Len(gw.cout) < PipeCap
             /\ gw' = [gw EXCEPT !.cin = Tail(@), !.cout = Append(@, Head(gw.cin)),
                                 !.emitted = Append(@, Head(gw.cin))]
    /\ UNCHANGED << gargs, ginput, finput, fpattern, fcalls, fpair, pvars, cvars, taken >>

\* grep exits: at the end of its input, or before (an error, a match limit)
GrepExit ==
    /\ gw.child = "running"
    /\ gw' = [gw EXCEPT !.child = "exited", !.cin = <<>>]
    /\ UNCHANGED << gargs, ginput, finput, fpattern, fcalls, fpair, pvars, cvars, taken >>

\* The output thread, io::copy: a byte of grep's stdout is written to the
\* downstream writer; when that write fails the copy ends, the error is
\* ignored and stdout is closed.
GrepCopy ==
    /\ gw.thread = "running"
    /\ gw.cout # <<>>
    /\ \E failed \in BOOLEAN :
        gw' = IF failed
              THEN [gw EXCEPT !.thread = "done", !.downBroken = TRUE, !.cout = <<>>,
                              !.flushed = TRUE]
              ELSE [gw EXCEPT !.down = Append(@, Head(gw.cout)), !.cout = Tail(@)]
    /\ UNCHANGED << gargs, ginput, finput, fpattern, fcalls, fpair, pvars, cvars, taken >>

\* The output thread: io::copy returns at the end of grep's stdout, the
\* downstream writer is flushed and the thread ends.
GrepCopyEof ==
    /\ gw.thread = "running"
    /\ gw.cout = <<>>
    /\ gw.child \in { "exited", "reaped" }
    /\ gw' = [gw EXCEPT !.thread = "done", !.flushed = TRUE]
    /\ UNCHANGED << gargs, ginput, finput, fpattern, fcalls, fpair, pvars, cvars, taken >>

GrepNext ==
    \/ pipe_grep
    \/ GrepWrite
    \/ GrepDrop
    \/ GrepJoin
    \/ GrepWait
    \/ GrepRead
    \/ GrepExit
    \/ GrepCopy
    \/ GrepCopyEof

GrepSpec == GrepInit /\ [][GrepNext]_vars

\* grep at the end of its input: its stdin is closed and read empty
GrepAtEof == gw.cin = <<>> /\ ~gw.stdin

\* What goes on by itself: grep reads, and exits at the end of its input;
\* the output thread copies; a drop that can go on does.
GrepSystem ==
    \/ GrepRead
    \/ GrepAtEof /\ GrepExit
    \/ GrepCopy
    \/ GrepCopyEof
    \/ GrepJoin
    \/ GrepWait

GrepFairSpec == GrepSpec /\ WF_vars(GrepSystem)

\* ================================================================ claims
Range(q) == { q[i] : i \in 1..Len(q) }

\* every unit of the chain has been joined (thread) or waited on (process)
AllStagesDone == \A v \in Range(stages) : act[v].pc \in { "joined", "reaped" }

C2_EntryClosedBeforeWait ==
    (NStages >= 1 /\ began # <<>>) => ~pipe[Entry].wopen

\* C2, amended: the same, for the states in which the producer does not hold
\* the writer (it never took it and finish dropped it, or it took it and has
\* dropped it).
C2_EntryClosedUnlessHeld ==
    (NStages >= 1 /\ began # <<>> /\ writer # "producer") => ~pipe[Entry].wopen

C2_Witness ==
    /\ pc = "finish" /\ NStages >= 1 /\ began # <<>> /\ writer = "dropped"
    /\ ~pipe[Entry].wopen

\* C3: finish has joined/waited every unit of stage i before it begins the
\* join/wait of a unit of a stage j > i.
C3_LeftToRight ==
    \A a \in 1..Len(began) : \A v \in Range(stages) :
        (began[a] # PagerUnit /\ v[2] < began[a][2])
            => \E c \in 1..Len(joined) : c < a /\ joined[c] = v

C3_Witness ==
    /\ pc = "returned" /\ result = Ok /\ NStages = 2 /\ Len(stages) = 3
    /\ sent # <<>>

\* C4: when finish has begun to wait on the pager, every stage thread has
\* been joined and every stage process waited on.
C4_PagerLast == PagerUnit \in Range(began) => AllStagesDone

C4_Witness == waitOn = PagerUnit /\ Len(stages) >= 2 /\ sent # <<>>

\* C5: when finish has returned, Ok or Err, every stage thread has been
\* joined, every stage process waited on, and the pager waited on.
C5_ReturnedAllDone ==
    pc = "returned" => AllStagesDone /\ pager \in { "none", "reaped" }

\* C6: when spawn has returned an error, no thread or process it created is
\* left unjoined or unreaped, the pager included.
C6_Rollback ==
    pc = "spawn_err" =>
        /\ \A u \in Unit : act[u].pc \in { "none", "joined", "reaped" }
        /\ pager \in { "none", "reaped" }

\* The filter functions applied one after the other, in pipeline order.
RECURSIVE Compose(_, _)
Compose(ps, b) ==
    IF ps = <<>> THEN b
    ELSE Compose(Tail(ps), BuiltinFn(Cmd(Head(ps)).name, Head(ps).args, b).out)

BuiltinOnly == \A i \in 1..Len(pipes) : Cmd(pipes[i]).action = "Builtin"

NoPanic == \A i \in 1..Len(fails) : fails[i].res # Panicked

\* C7: for builtin-only stages, when finish has returned (the entry writer
\* has been dropped, no filter has panicked, the user has not quit the
\* pager), the bytes at the terminal sink are the stages' filter functions
\* applied in order to the producer's bytes.
C7_Composition ==
    (pc = "returned" /\ writer \in { "closed", "dropped" } /\ BuiltinOnly /\ NoPanic
        /\ ~quit)
        => terminal \o stdoutBuf = Compose(pipes, sent)

\* C8: the error finish returns is the error of the stage that failed first.
C8_FirstErrorWins ==
    (pc = "returned" /\ result.st = "err") => result.msg = JoinError(fails[1].res)

\* C9: a thread in which a read or a write failed makes finish return Err
\* when finish joins it.
C9_IoFailureReturned ==
    \A u \in Unit :
        (act[u].pc = "joined" /\ act[u].iofail)
            => (pc = "returned" /\ result.st = "err" /\ result.unit = u)

C11_NoDataRun ==
    /\ (pc = "finish" /\ writer = "dropped") ~> (pc = "returned")
    /\ []((pc = "returned" /\ writer = "dropped" /\ NoPanic)
            => /\ result = Ok
               /\ \A u \in Unit : act[u].pc \in { "none", "joined", "reaped" }
               /\ pager \in { "none", "reaped" })

C11_Witness ==
    /\ pc = "returned" /\ writer = "dropped" /\ result = Ok /\ pager = "reaped"
    /\ \E u \in Unit : u[1] = "P" /\ act[u].pc = "reaped"

\* C12: finish starts only on a chain that spawn returned and that finish
\* has not been called on; once finish has been called the chain never
\* gets back to a state in which finish or take_writer can be called, and
\* the writer is never handed out again.
C12_FinishOnce ==
    [][/\ (pc' = "finish" /\ pc # "finish") => pc = "active"
       /\ pc \in { "finish", "returned" }
            => /\ pc' \in { "finish", "returned" }
               /\ writer' = "producer" => writer = "producer"
       /\ pc = "returned" => pc' = "returned"]_vars

C12_Witness == pc = "returned" /\ began # <<>> /\ writer = "closed" /\ sent # <<>>

\* the commands whose name starts with the name of the last parse_pipe call
Candidates ==
    { i \in 1..Len(commands) : starts_with(Spell(commands[i].name), call.name) }

\* the name of the last parse_pipe call is a registered name in full
ExactName == \E i \in 1..Len(commands) : Spell(commands[i].name) = call.name

\* the number of words of a text: the places where a word begins
WordCount(text) ==
    Cardinality({ i \in 1..Len(text) :
                    text[i] # " " /\ (i = 1 \/ text[i - 1] = " ") })

NothingCreated ==
    /\ stages = <<>> /\ pager = "none" /\ writer = "none"
    /\ act = [u \in Unit |-> Idle]
    /\ pipe = [p \in PipeId |-> NoPipe]

\* C13: when parse_pipes has returned and a segment fails to parse, it has
\* returned that failure and no ParsedPipe list; parsing creates no process,
\* thread or pipe and leaves the registry as it was.
C13_ParseSideEffectFree ==
    /\ [](parse_result.st # "none" =>
            IF \E i \in 1..Len(segments) : ~parse_pipe(commands, segments[i]).ok
            THEN /\ parse_result.st = "err"
                 /\ parse_result.error.err \in { "NotFound", "Ambiguous", "WrongArgCount" }
                 /\ parse_result.pipes = <<>> /\ collected = <<>>
            ELSE /\ parse_result.st = "ok"
                 /\ Len(parse_result.pipes) = Len(segments))
    /\ [](segments # <<>> => NothingCreated)
    /\ [][commands' = commands]_vars

C13_Witness ==
    /\ parse_result.st = "err" /\ Len(segments) = 2
    /\ parse_pipe(commands, segments[1]).ok /\ call.segment = segments[2]
    /\ NothingCreated

\* C14: a typed name that is a registered name in full resolves to a
\* command of that name, whatever other names start with it.
C14_ExactNameWins ==
    (call # NoCall /\ ExactName)
        => /\ call.found.ok
           /\ Spell(commands[call.found.idx].name) = call.name

C14_Witness ==
    /\ call.name = Spell("inc") /\ call.found.ok
    /\ commands[call.found.idx].name = "inc"
    /\ \E i \in Candidates : commands[i].name = "include"

\* C15: a typed name that is no registered name in full and that two or
\* more registered names start with fails with Ambiguous, which carries the
\* typed name and exactly the names that start with it.
C15_AmbiguousPrefix ==
    (call # NoCall /\ ~ExactName /\ Cardinality(Candidates) >= 2)
        => /\ ~call.found.ok
           /\ call.found.error.err = "Ambiguous"
           /\ call.found.error.name = call.name
           /\ Len(call.found.error.names) = Cardinality(Candidates)
           /\ Range(call.found.error.names) = { commands[i].name : i \in Candidates }

C15_Witness ==
    /\ call.name = Spell("inc") /\ ~call.found.ok
    /\ call.found.error.err = "Ambiguous"
    /\ Range(call.found.error.names) = { "include", "increment" }

\* C16: a typed name that is no registered name in full resolves if and
\* only if exactly one registered name starts with it, and then to that
\* command; it fails with NotFound if and only if none starts with it.
C16_UniquePrefix ==
    (call # NoCall /\ ~ExactName)
        => /\ call.found.ok <=> Cardinality(Candidates) = 1
           /\ call.found.ok => call.found.idx \in Candidates
           /\ (~call.found.ok /\ call.found.error.err = "NotFound") <=> Candidates = {}

C16_Witness ==
    /\ call.name = << "i", "n" >> /\ call.found.ok
    /\ commands[call.found.idx].name = "include" /\ Len(commands) >= 4

\* C17: for a segment whose name resolves, parse_pipe succeeds if and only
\* if the number of words after the name is the command's declared number
\* of arguments; otherwise it fails with WrongArgCount carrying the name of
\* the command resolved, the number expected and the number received.
C17_ArityValidation ==
    (call # NoCall /\ call.found.ok)
        => LET c == commands[call.found.idx]
               words == WordCount(call.segment)
               got == IF words = 0 THEN 0 ELSE words - 1
           IN  /\ call.res.ok <=> got = c.nargs
               /\ call.res.ok => /\ call.res.pipe.command_idx = call.found.idx
                                 /\ Len(call.res.pipe.args) = c.nargs
               /\ ~call.res.ok => call.res.error = WrongArgCount(c.name, c.nargs, got)

C17_Witness ==
    /\ call # NoCall /\ call.found.ok /\ ~call.res.ok
    /\ call.res.error = WrongArgCount("include", 1, 2)
    /\ call.name = << "i", "n", "c" >>

Built == pc \in { "active", "finish", "returned" }

NoMoreRequested ==
    \E i \in 1..Len(pipes) : registry[pipes[i].command_idx].name = "no-more"

\* the sink the rightmost unit of the chain writes to (the entry writer's
\* sink when the chain has no stage)
RightmostSink ==
    IF NStages = 0 THEN Entry
    ELSE Out(<< (IF IsExt(NStages) THEN "P" ELSE "T"), NStages >>)

\* C18: a chain that spawn has built holds a pager if and only if use_pager
\* is true and no request is no-more (a failed spawn has started one only
\* then); the rightmost output is the pager's input when a pager is held
\* and the process's standard output when none is; with a pager, bytes
\* reach the terminal only through it, and without one no pager input
\* exists.
C18_OneTerminalSink ==
    /\ [](/\ Built => (pager # "none" <=> (use_pager /\ ~NoMoreRequested))
          /\ pager # "none" => (use_pager /\ ~NoMoreRequested)
          /\ Built => RightmostSink = (IF pager # "none" THEN PagerStdin ELSE Terminal)
          /\ pager = "none" => pipe[PagerStdin] = NoPipe
          /\ pager # "none" => stdoutBuf = <<>>)
    /\ [][(pager # "none" /\ terminal' # terminal)
            => /\ pipe[PagerStdin].buf # <<>>
               /\ terminal' = terminal \o pipe[PagerStdin].buf
               /\ pipe'[PagerStdin].buf = <<>>]_vars

C18_Witness ==
    /\ pc = "returned" /\ pager = "reaped" /\ NStages >= 1
    /\ terminal # <<>> /\ sent # <<>>

\* the stages of the pipeline that the chain holds a unit of
StagesHeld == { u[2] : u \in Range(stages) }

RequestsOf(kind) ==
    { i \in 1..Len(pipes) :
        /\ registry[pipes[i].command_idx].name # "no-more"
        /\ registry[pipes[i].command_idx].action = kind }

\* C19: a chain that spawn has built holds as many stage units as there
\* are requests in the list it was given.
C19_UnitsEqualRequests == Built => Cardinality(StagesHeld) = Len(pipes)

\* C19, amended: the chain holds a unit for every request that is not
\* no-more and none for no-more; stages has one entry (a thread) for a
\* builtin request and two (forwarding thread and process) for an external
\* one.
C19_UnitsPerRequest ==
    Built => /\ Cardinality(StagesHeld)
                    = Cardinality(RequestsOf("Builtin")) + Cardinality(RequestsOf("External"))
             /\ Len(stages)
                    = Cardinality(RequestsOf("Builtin")) + 2 * Cardinality(RequestsOf("External"))
             /\ Cardinality(Range(stages)) = Len(stages)

C19_Witness ==
    /\ pc = "active" /\ Len(pipes) = 2 /\ NoMoreRequested
    /\ Len(stages) = 2 /\ Cardinality(StagesHeld) = 1

\* C20: a chain built from no request with the pager disabled has no stage
\* unit, no pager and no pipe; its entry writer is the process's standard
\* output, and the bytes written to it are the bytes the producer wrote.
C20_ZeroStages ==
    (Built /\ pipes = <<>> /\ ~use_pager)
        => /\ stages = <<>> /\ pager = "none"
           /\ pipe = [p \in PipeId |-> NoPipe]
           /\ Entry = Terminal
           /\ terminal \o stdoutBuf = sent

C20_Witness ==
    /\ pc = "returned" /\ pipes = <<>> /\ ~use_pager /\ result = Ok
    /\ terminal # <<>> /\ stdoutBuf # <<>>

\* ------------------------------------------------------ the lines of a text
\* the positions of the line breaks
NLs(b) == { i \in 1..Len(b) : b[i] = "NL" }

\* a line starts at the first byte and after every line break
LineStarts(b) == { s \in 1..Len(b) : s = 1 \/ b[s - 1] = "NL" }

\* a line ends with the next line break, the last one with the text
LineEnd(b, s) ==
    IF \E i \in NLs(b) : i >= s
    THEN CHOOSE i \in NLs(b) : i >= s /\ \A j \in NLs(b) : j >= s => i <= j
    ELSE Len(b)

NthStart(b, k) ==
    CHOOSE s \in LineStarts(b) : Cardinality({ t \in LineStarts(b) : t < s }) = k - 1

\* the lines of b in order, each with its line break if it has one
LinesOf(b) ==
    [k \in 1..Cardinality(LineStarts(b)) |->
        SubSeq(b, NthStart(b, k), LineEnd(b, NthStart(b, k)))]

\* a line without its line break ("\n" or "\r\n")
TextOf(l) ==
    IF l # <<>> /\ l[Len(l)] = "NL"
    THEN IF Len(l) > 1 /\ l[Len(l) - 1] = "CR"
         THEN SubSeq(l, 1, Len(l) - 2)
         ELSE SubSeq(l, 1, Len(l) - 1)
    ELSE l

IsText(l) == \A i \in 1..Len(l) : l[i] # "BAD"

\* the lines before the first one that is not text
ReadableLines(b) ==
    LET ls == LinesOf(b)
        bad == { k \in 1..Len(ls) : ~IsText(ls[k]) }
    IN  IF bad = {} THEN ls
        ELSE SubSeq(ls, 1, (CHOOSE k \in bad : \A j \in bad : k <= j) - 1)

\* the lines that contain the pattern (keep) or do not (~keep)
Selected(ls, pat, keep) == SelectSeq(ls, LAMBDA l : Contains(TextOf(l), pat) = keep)

RECURSIVE ConcatAll(_)
ConcatAll(ls) == IF ls = <<>> THEN <<>> ELSE Head(ls) \o ConcatAll(Tail(ls))

\* each line as text followed by one line break
Terminated(ls) == ConcatAll([k \in 1..Len(ls) |-> TextOf(ls[k]) \o << "NL" >>])

\* C21: include PATTERN emits exactly the input lines that contain PATTERN,
\* in input order. filter_include writes each of them as its text and a line
\* break and returns Ok when every line is text; at the first line that is
\* not valid UTF-8 it returns Err, having written the matching lines before
\* it. A FilterWriter built to include forwards exactly the matching lines,
\* byte for byte, however the input is cut into writes.
C21_IncludeExact ==
    \A k \in 1..Len(fcalls) :
        LET c == fcalls[k]
        IN  /\ c.fn = "include" =>
                /\ (c.res = "ok") = (\A l \in Range(LinesOf(c.input)) : IsText(l))
                /\ c.out = Terminated(Selected(ReadableLines(c.input), fpattern, TRUE))
            /\ (c.fn = "FilterWriter" /\ c.keep) =>
                c.out = ConcatAll(Selected(LinesOf(c.input), fpattern, TRUE))

\* include "error" on the four lines of scenario A gives its two error lines
C21_Witness ==
    /\ Len(fcalls) = 1
    /\ fcalls[1].fn = "include"
    /\ fcalls[1].input = ScenarioA.input
    /\ fpattern = ScenarioA.pattern
    /\ fcalls[1].res = "ok"
    /\ fcalls[1].out =
          << "e", "r", "r", "o", "r", ":", " ", "b", "a", "d", "NL",
             "e", "r", "r", "o", "r", ":", " ", "w", "o", "r", "s", "e", "NL" >>

\* C22: exclude PATTERN emits exactly the input lines that do not contain
\* PATTERN, in input order: filter_exclude writes each as its text and a line
\* break (up to the first line that is not valid UTF-8, where it returns
\* Err), a FilterWriter built to exclude forwards them byte for byte; the
\* lines 'DEBUG x', 'INFO y', 'DEBUG z' with pattern DEBUG give 'INFO y'.
C22_ExcludeExact ==
    \A k \in 1..Len(fcalls) :
        LET c == fcalls[k]
        IN  /\ c.fn = "exclude" =>
                /\ (c.res = "ok") = (\A l \in Range(LinesOf(c.input)) : IsText(l))
                /\ c.out = Terminated(Selected(ReadableLines(c.input), fpattern, FALSE))
            /\ (c.fn = "FilterWriter" /\ ~c.keep) =>
                c.out = ConcatAll(Selected(LinesOf(c.input), fpattern, FALSE))
            /\ (c.fn \in { "exclude", "FilterWriter" } /\ ~c.keep
                    /\ c.input = ScenarioB.input /\ fpattern = ScenarioB.pattern) =>
                c.out = << "I", "N", "F", "O", " ", "y", "NL" >>

\* exclude "DEBUG" has been applied to the three lines of scenario B
C22_Witness ==
    /\ Len(fcalls) = 1
    /\ fcalls[1].fn = "exclude"
    /\ fcalls[1].input = ScenarioB.input
    /\ fpattern = ScenarioB.pattern
    /\ fcalls[1].res = "ok"
    /\ fcalls[1].out # <<>>

\* the number of lines: one for each line break, one more for a last
\* fragment without a line break
LineCountOf(b) ==
    Cardinality(NLs(b)) + (IF b # <<>> /\ b[Len(b)] # "NL" THEN 1 ELSE 0)

Digits == { "0", "1", "2", "3", "4", "5", "6", "7", "8", "9" }

\* a decimal numeral: digits, no leading zero
IsDecimal(ds) ==
    /\ ds # <<>>
    /\ \A i \in 1..Len(ds) : ds[i] \in Digits
    /\ Len(ds) > 1 => ds[1] # "0"

DigitValue(ch) == CHOOSE n \in 0..9 : Digit(n) = ch

RECURSIVE FromDec(_)
FromDec(ds) ==
    IF ds = <<>> THEN 0
    ELSE 10 * FromDec(SubSeq(ds, 1, Len(ds) - 1)) + DigitValue(ds[Len(ds)])

\* C23: count emits exactly one line, the decimal number of input lines, a
\* last fragment without a line break counting as one line and empty input
\* giving 0; include "error" then count on the four lines of scenario A
\* gives the single line 2.
C23_CountLines ==
    \A k \in 1..Len(fcalls) :
        LET c == fcalls[k]
            n == Len(c.out)
        IN  c.fn = "count" =>
                /\ c.res = "ok"
                /\ n >= 2
                /\ c.out[n] = "NL"
                /\ IsDecimal(SubSeq(c.out, 1, n - 1))
                /\ FromDec(SubSeq(c.out, 1, n - 1)) = LineCountOf(c.input)
                /\ c.input = <<>> => c.out = << "0", "NL" >>
                /\ (k = 2 /\ fcalls[1].fn = "include" /\ finput = ScenarioA.input
                        /\ fpattern = ScenarioA.pattern) =>
                    c.out = << "2", "NL" >>

\* include "error" then count have been applied to scenario A
C23_Witness ==
    /\ Len(fcalls) = 2
    /\ finput = ScenarioA.input
    /\ fpattern = ScenarioA.pattern
    /\ fcalls[1].fn = "include"
    /\ fcalls[2].fn = "count"
    /\ fcalls[2].input = fcalls[1].out
    /\ Len(fcalls[2].out) = 2

IsInclude(c) == c.fn = "include" \/ (c.fn = "FilterWriter" /\ c.keep)

IsExclude(c) == c.fn = "exclude" \/ (c.fn = "FilterWriter" /\ ~c.keep)

\* C24: include A followed by exclude A writes nothing, for every input and
\* every pattern A, whichever of the two implementations each stage uses.
C24_IncludeThenExclude ==
    \A k \in 2..Len(fcalls) :
        (IsInclude(fcalls[k - 1]) /\ IsExclude(fcalls[k])) => fcalls[k].out = <<>>

\* include kept some lines of an input of several lines and dropped others,
\* and exclude has been applied to what it wrote
C24_Witness ==
    /\ Len(fcalls) = 2
    /\ IsInclude(fcalls[1])
    /\ IsExclude(fcalls[2])
    /\ Cardinality(NLs(finput)) >= 2
    /\ fcalls[1].out # <<>>
    /\ Len(fcalls[1].out) < Len(finput)
    /\ fcalls[2].input = fcalls[1].out

\* C25: include with the empty pattern is the identity: the output equals
\* the input, also when the last line has no line break.
C25_IncludeEmptyIdentity ==
    \A k \in 1..Len(fcalls) :
        (IsInclude(fcalls[k]) /\ fpattern = <<>>) => fcalls[k].out = fcalls[k].input

\* C26: the catalog offers a begin stage: against the default registry the
\* typed name begin resolves to a command named begin (which then drops
\* every line before the first one containing PATTERN).
C26_BeginAvailable ==
    (call # NoCall /\ commands = default_registry /\ call.name = Spell("begin"))
        => /\ call.found.ok
           /\ commands[call.found.idx].name = "begin"

\* reading the input gave an error: a filter that reads lines met one that
\* is not valid UTF-8 (filter_no_more copies bytes and meets none)
InputError(c) ==
    /\ c.fn \in { "include", "exclude", "count" }
    /\ \E l \in Range(LinesOf(c.input)) : ~IsText(l)

\* C30: no builtin filter returns Ok after an I/O error occurred on its
\* input: it stops at the first error and returns it.
C30_InputErrorReturned ==
    \A k \in 1..Len(fcalls) :
        (fcalls[k].fn \in BuiltinNames /\ InputError(fcalls[k])) => fcalls[k].res = "Err"

\* a word starts at a character that is no blank and follows a blank or
\* nothing
WordStarts(t) == { i \in 1..Len(t) : t[i] # " " /\ (i = 1 \/ t[i - 1] = " ") }

\* it ends before the next blank or with the text
WordEnd(t, i) ==
    CHOOSE j \in i..Len(t) :
        /\ \A m \in i..j : t[m] # " "
        /\ j = Len(t) \/ t[j + 1] = " "

\* the words of a text, in order
WordsOf(t) ==
    [k \in 1..Cardinality(WordStarts(t)) |->
        LET i == CHOOSE i \in WordStarts(t) :
                    Cardinality({ j \in WordStarts(t) : j < i }) = k - 1
        IN  SubSeq(t, i, WordEnd(t, i))]

IsPrefix(p, q) == Len(p) <= Len(q) /\ SubSeq(q, 1, Len(p)) = p

\* C27: grep is started with the words of the ARGS text, in order and as
\* typed; what the downstream writer has received is at all times the
\* beginning of what grep has written to its stdout, and when the drop of
\* the GrepWriter returns (the stage is finished) it is all of it, unless
\* the downstream writer refused a write.
C27_GrepRelay ==
    gw.ret = "GrepWriter" =>
        /\ gw.argv = WordsOf(gargs)
        /\ IsPrefix(gw.down, gw.emitted)
        /\ (gw.pc = "done" /\ ~gw.downBroken) => gw.down = gw.emitted

\* grep was given two words, wrote two bytes, and the GrepWriter has been
\* dropped
C27_Witness ==
    /\ gw.ret = "GrepWriter"
    /\ gw.pc = "done"
    /\ Len(gw.argv) = 2
    /\ Len(gw.emitted) = 2
    /\ gw.down = gw.emitted

\* C28: a failure to spawn the program of an external stage is returned to
\* the caller as an error; the producer is never handed a writer in which
\* the failed stage is left out or replaced.
C28_SpawnFailureReported ==
    gw.spawn = "failed" => (gw.ret = "Err" /\ gw.sunk = <<>>)

\* the unit is running: its thread or process exists and has not exited
Live(s) == s.pc \in { "read", "fin", "drop" }

Gone(s) == s.pc \in { "exited", "joined", "reaped" }

\* the step in which a read of unit u returns end-of-input
EofRead(u) == Read(u) /\ pipe[In(u)].buf = <<>>

\* the units that write into the input of u
Upstream(u) == { v \in Unit : act[v].pc # "none" /\ Out(v) = In(u) }

\* C29: end-of-input travels left to right, one hop at a time: a thread of
\* the chain exits only when it has observed end-of-input on its input, or
\* observes it in that step, or ends with an error (Err or a panic); and a
\* unit observes end-of-input only when every unit writing into its input
\* has exited, and the entry writer is closed if its input is the entry.
C29_EofLeftToRight ==
    [][ \A u \in Unit :
          /\ (u[1] = "T" /\ Live(act[u]) /\ Gone(act'[u]))
                => (act[u].eof \/ EofRead(u) \/ act'[u].res # "ok")
          /\ EofRead(u)
                => /\ \A v \in Upstream(u) : Gone(act[v])
                   /\ In(u) = Entry => writer \in { "closed", "dropped" } ]_vars

\* in a chain of two stages the first has exited with Ok and the second has
\* observed end-of-input and is still writing
C29_Witness ==
    /\ NStages = 2
    /\ act[<< "T", 1 >>].pc = "exited"
    /\ act[<< "T", 1 >>].res = "ok"
    /\ Live(act[<< "T", 2 >>])
    /\ act[<< "T", 2 >>].eof
    /\ sent # <<>>

\* ls is an interleaving of as and bs: every element of ls is the next
\* element of one of them
RECURSIVE IsMerge(_, _, _)
IsMerge(ls, as, bs) ==
    IF ls = <<>> THEN as = <<>> /\ bs = <<>>
    ELSE \/ as # <<>> /\ Head(as) = Head(ls) /\ IsMerge(Tail(ls), Tail(as), bs)
         \/ bs # <<>> /\ Head(bs) = Head(ls) /\ IsMerge(Tail(ls), as, Tail(bs))

\* C37: include P and exclude P partition the input: the input lines are an
\* interleaving of the lines include emits and the lines exclude emits, each
\* in its order, every emitted line of include containing P and none of
\* exclude; for filter_include and filter_exclude the lines are those read
\* before the first line that is not valid UTF-8 (where both return Err),
\* each ended by one line break; for the FilterWriters they are all the
\* lines, byte for byte.
C37_Partition ==
    fpair.st = "done" =>
        LET rl == ReadableLines(finput)
            tl == [k \in 1..Len(rl) |-> TextOf(rl[k]) \o << "NL" >>]
            fi == LinesOf(fpair.inc.out)
            fe == LinesOf(fpair.exc.out)
            wi == LinesOf(fpair.whole[TRUE])
            we == LinesOf(fpair.whole[FALSE])
        IN  /\ IsMerge(tl, fi, fe)
            /\ Len(fi) + Len(fe) = Len(rl)
            /\ \A l \in Range(fi) : Contains(TextOf(l), fpattern)
            /\ \A l \in Range(fe) : ~Contains(TextOf(l), fpattern)
            /\ fpair.inc.res = fpair.exc.res
            /\ IsMerge(LinesOf(finput), wi, we)
            /\ \A l \in Range(wi) : Contains(TextOf(l), fpattern)
            /\ \A l \in Range(we) : ~Contains(TextOf(l), fpattern)

\* both filters have been applied to the four lines of scenario A, and each
\* has emitted two of them
C37_Witness ==
    /\ fpair.st = "done"
    /\ finput = ScenarioA.input
    /\ fpattern = ScenarioA.pattern
    /\ Len(LinesOf(fpair.inc.out)) = 2
    /\ Len(LinesOf(fpair.exc.out)) = 2
    /\ Len(LinesOf(fpair.whole[TRUE])) = 2
    /\ Len(LinesOf(fpair.whole[FALSE])) = 2

\* C38: what a FilterWriter forwards depends only on the bytes written to
\* it: cut into two writes at any place, with or without a flush between
\* them, and flushed at the end, it forwards what it forwards for one write
\* and one flush.
C38_WritesAndFlushes ==
    fpair.st = "done" =>
        \A i \in BOOLEAN : fpair.cut[i] = fpair.whole[i]

\* C39: the two implementations agree: a FilterWriter written to and
\* flushed once forwards exactly the bytes filter_include (filter_exclude)
\* writes for the same input and pattern.
C39_ImplementationsAgree ==
    fpair.st = "done" =>
        /\ fpair.whole[TRUE] = fpair.inc.out
        /\ fpair.whole[FALSE] = fpair.exc.out

\* command_idx is an index of the registry and the arguments are as many
\* as the command declares
WellFormed(p) ==
    /\ p.command_idx \in 1..Len(commands)
    /\ Len(p.args) = commands[p.command_idx].nargs

\* C35: every ParsedPipe parse_pipe returns, and every one in the list
\* parse_pipes returns, has its command_idx within the registry and as many
\* arguments as that command declares; so include and exclude have their
\* pattern, and a list parsed against the registry the chain is spawned
\* with is one of the request lists spawn is run on.
C35_ParsedPipeWellFormed ==
    /\ (call # NoCall /\ call.res.ok) => WellFormed(call.res.pipe)
    /\ \A p \in Range(collected) : WellFormed(p)
    /\ parse_result.st = "ok" =>
            /\ \A p \in Range(parse_result.pipes) :
                    /\ WellFormed(p)
                    /\ commands[p.command_idx].name \in { "include", "exclude" }
                            => Len(p.args) = 1
            /\ commands = registry => parse_result.pipes \in Pipelines

\* parse_pipes has returned two requests, one of them include with its
\* pattern, parsed against the registry of the chain
C35_Witness ==
    /\ parse_result.st = "ok"
    /\ commands = registry
    /\ Len(parse_result.pipes) = 2
    /\ \E p \in Range(parse_result.pipes) :
            commands[p.command_idx].name = "include" /\ p.args = << << "a" >> >>

\* C36: a segment that is empty or holds only blanks is rejected by
\* parse_pipe with an error, whatever the registry; it never resolves to a
\* stage.
C36_EmptySegmentRejected ==
    (call # NoCall /\ WordCount(call.segment) = 0) => ~call.res.ok

\* C32: a dropped GrepWriter closes grep's stdin, then joins the output
\* thread, then waits for grep: once the drop has begun stdin is closed,
\* it goes on to the wait only with the thread ended, and returns only with
\* grep reaped, the thread having flushed and, unless the downstream
\* writer refused a write, every byte grep wrote copied; and a drop that
\* has begun returns, grep exiting at the end of its input.
C32_GrepDropOrder ==
    /\ [](gw.ret = "GrepWriter" =>
            /\ gw.pc \in { "join", "wait", "done" } => ~gw.stdin
            /\ gw.pc \in { "wait", "done" } => gw.thread = "done" /\ gw.flushed
            /\ gw.pc = "wait" => gw.child \in { "running", "exited" }
            /\ gw.pc = "done" =>
                    /\ gw.child = "reaped"
                    /\ gw.cout = <<>>
                    /\ ~gw.downBroken => gw.down = gw.emitted)
    /\ (gw.pc = "join") ~> (gw.pc = "done")

\* in the middle of a drop: stdin closed, the thread joined after copying
\* two bytes, grep exited and not yet waited for
C32_Witness ==
    /\ gw.ret = "GrepWriter"
    /\ gw.pc = "wait"
    /\ ~gw.stdin
    /\ gw.thread = "done"
    /\ gw.child = "exited"
    /\ Len(gw.down) = 2

\* C40 as stated: after spawn the chain's stage list runs left to right, the
\* unit of an earlier request never after the unit of a later one.
C40_StagesLeftToRight ==
    Built =>
        \A i, j \in 1..Len(stages) : i < j => stages[i][2] <= stages[j][2]

\* C40: after spawn the chain's stage list is in build order, which is right
\* to left in the pipeline: the units of a later request come before the
\* units of every earlier one, every stage has its units in the list, and
\* finish, walking the list from its end, meets the stages left to right.
C40_StagesInBuildOrder ==
    /\ Built =>
        /\ \A i, j \in 1..Len(stages) : i < j => stages[i][2] >= stages[j][2]
        /\ StagesHeld = 1..NStages
    /\ (pc = "finish" /\ finIdx >= 1 /\ finIdx < Len(stages)) =>
            FinishUnit[2] >= stages[finIdx + 1][2]

C40_Witness ==
    /\ pc = "finish" /\ finIdx = 1
    /\ NStages = 2
    /\ FinishUnit = stages[1] /\ stages[1][2] = 2
    /\ stages[Len(stages)][2] = 1
    /\ \E u \in Range(stages) : u[1] = "P"

\* the bytes the terminal sink has taken and not yet passed on: the terminal
\* with what Stdout holds, or the input of the pager
AtTerminalSink ==
    IF should_page THEN pipe[PagerStdin].buf ELSE terminal \o stdoutBuf

\* C34: once finish has returned, with Ok or with Err, no step of a stage
\* thread or of a stage process adds a byte to the terminal sink.
C34_QuietAfterReturn ==
    [][pc = "returned" => Len(AtTerminalSink') <= Len(AtTerminalSink)]_vars

\* the external stages whose program and forwarding thread exist
ExtBuilt == { k \in 1..NStages : IsExt(k) /\ act[<<"T", k>>].pc # "none" }

\* the bytes written to the endpoint of external stage k that the program has
\* not read yet, the oldest first: in the program's stdin pipe, held by the
\* forwarding thread, and in the pipe of the endpoint
OnTheWay(k) ==
    pipe[ChildStdin(k)].buf \o act[<<"T", k>>].outq \o act[<<"T", k>>].rbuf
        \o pipe[InPipe(k)].buf

IsSuffix(p, q) == Len(p) <= Len(q) /\ SubSeq(q, Len(q) - Len(p) + 1, Len(q)) = p

\* the step appends d to sink o
Lands(o, d) ==
    IF o = Terminal THEN terminal' = terminal \o d
    ELSE pipe'[o].buf = pipe[o].buf \o d

\* C31: for an external stage of the chain, (1) what the program writes lands
\* in the destination that was current when the stage was built; (2) while
\* the program keeps its input open, the bytes on their way from the stage's
\* endpoint to the program change only by bytes written to the endpoint
\* being added at the end and bytes read by the program being taken from the
\* front; (3) the program's input is closed only when the forwarding thread
\* has exited, and if it exited with Ok the endpoint is closed and nothing
\* is left to forward; (4) once the endpoint is closed, the program's input
\* is closed eventually.
C31_ExternalWiring ==
    /\ [][\A k \in ExtBuilt :
            LET u == <<"P", k>>
                o == StageOut(k)
            IN  /\ (/\ act[u].outq # <<>> /\ act'[u] # act[u]
                    /\ o = Terminal \/ pipe[o].ropen)
                        => \E n \in 1..Len(act[u].outq) :
                                /\ Lands(o, SubSeq(act[u].outq, 1, n))
                                /\ n < Len(act[u].outq) =>
                                        act'[u].outq = SubSeq(act[u].outq, n + 1,
                                                              Len(act[u].outq))
                /\ (pipe[ChildStdin(k)].ropen /\ pipe'[ChildStdin(k)].ropen)
                        => \/ IsPrefix(OnTheWay(k), OnTheWay(k)')
                           \/ IsSuffix(OnTheWay(k)', OnTheWay(k))]_vars
    /\ [](\A k \in ExtBuilt :
            LET t == act[<<"T", k>>]
            IN  ~pipe[ChildStdin(k)].wopen =>
                    /\ Gone(t)
                    /\ t.res = "ok" =>
                            /\ ~pipe[InPipe(k)].wopen
                            /\ pipe[InPipe(k)].buf = <<>>)
    /\ \A k \in 1..MaxStages :
            (k \in ExtBuilt /\ ~pipe[InPipe(k)].wopen)
                ~> (k \in ExtBuilt /\ ~pipe[ChildStdin(k)].wopen)

C31_Witness ==
    \E k \in ExtBuilt :
        /\ k = 1 /\ NStages = 2
        /\ sent # <<>>
        /\ ~pipe[ChildStdin(k)].wopen
        /\ act[<<"T", k>>].res = "ok" /\ Gone(act[<<"T", k>>])
        /\ Gone(act[<<"P", k>>])
        /\ terminal # <<>>

SomeCount(rs) == Len(SelectSeq(rs, LAMBDA r : r = "Some"))

\* C33: take_writer hands out the entry writer at most once per chain: on a
\* chain made by spawn the first call returns the writer and every later
\* call None, on a chain made by from_pager every call returns None; the
\* producer holds a writer only when exactly one call has returned one, and
\* then the chain holds none.
C33_WriterTakenOnce ==
    /\ SomeCount(taken.results) <= 1
    /\ \A i \in 1..Len(taken.results) :
            (taken.results[i] = "Some") <=> (taken.by = "spawn" /\ i = 1)
    /\ writer = "producer" => SomeCount(taken.results) = 1
    /\ writer = "chain" => taken.results = <<>>

C33_Witness ==
    /\ taken.by = "spawn"
    /\ taken.results = << "Some", "None" >>
    /\ writer = "producer" /\ sent # <<>>

C33_WitnessPager ==
    /\ taken.by = "from_pager"
    /\ taken.results = << "None", "None" >>
    /\ pc = "returned"

====
